---------------------------- MODULE Spec2Model ----------------------------
(***************************************************************************)
(* Resumable-approval protocol of the polymarket tool                      *)
(* (src/extensions/polymarket/src/polymarket-tool.ts).                     *)
(*                                                                         *)
(* Representation.                                                         *)
(*  - A string that the code only compares is a TLA+ string.  A string     *)
(*    that the code serializes, trims or lower-cases is looked up in       *)
(*    StrBytes, which gives its ASCII codes.                               *)
(*  - A resume token is a sequence of characters: 0..63 are the base64url  *)
(*    digits (A-Z a-z 0-9 - _ in that order) and Dot is ".".               *)
(*  - price and tick sizes are integers in units of 1/PriceScale; the      *)
(*    notional price*size is in the same unit and is compared with         *)
(*    maxNotionalUsd * PriceScale.                                         *)
(*  - The SHA-256 and HMAC-SHA-256 of node:crypto are modelled by a pair   *)
(*    of keyed polynomial digests of DigestBits bits each (Digest),        *)
(*    base64url-encoded to SigLen characters; JSON.stringify / JSON.parse  *)
(*    by a compact JSON with one-letter keys (JsonStringify / JsonParse).  *)
(*  - A call of execute is one step: it leaves its record in `last`, and   *)
(*    the next step (Return) is the caller taking the result.              *)
(***************************************************************************)
EXTENDS Integers, Sequences, FiniteSets, TLC

Undefined == "<undefined>"
NoNumber == -1

Dot == 64
B64Digits == 0..63
ReplacementChar == 65533

(***************************************************************************)
(* ASCII codes of the strings the model serializes or normalizes.          *)
(***************************************************************************)
StrBytes ==
  [s \in {"place_order", "buy", "sell", "s1", "s2", "m1", "m2",
          "T1", "T2", "X9", "Yes", "No", "yes", "no", " YES ", "YES", "maybe",
          "hold", "1", "2", " ", "o1", "q", " T2 ", ""} |->
     CASE s = "place_order" -> <<112, 108, 97, 99, 101, 95, 111, 114, 100, 101, 114>>
       [] s = "buy"   -> <<98, 117, 121>>
       [] s = "sell"  -> <<115, 101, 108, 108>>
       [] s = "s1"    -> <<115, 49>>
       [] s = "s2"    -> <<115, 50>>
       [] s = "m1"    -> <<109, 49>>
       [] s = "m2"    -> <<109, 50>>
       [] s = "T1"    -> <<84, 49>>
       [] s = "T2"    -> <<84, 50>>
       [] s = "X9"    -> <<88, 57>>
       [] s = "Yes"   -> <<89, 101, 115>>
       [] s = "No"    -> <<78, 111>>
       [] s = "yes"   -> <<121, 101, 115>>
       [] s = "no"    -> <<110, 111>>
       [] s = " YES " -> <<32, 89, 69, 83, 32>>
       [] s = "YES"   -> <<89, 69, 83>>
       [] s = "hold"  -> <<104, 111, 108, 100>>
       [] s = "maybe" -> <<109, 97, 121, 98, 101>>
       [] s = "1"     -> <<49>>
       [] s = "2"     -> <<50>>
       [] s = " "     -> <<32>>
       [] s = "o1"    -> <<111, 49>>
       [] s = "q"     -> <<113>>
       [] s = " T2 "  -> <<32, 84, 50, 32>>
       [] s = ""      -> <<>>]

KnownStrings == DOMAIN StrBytes

\* The string with the given ASCII codes; a string outside the table is
\* kept as "<other>", equal to no string of the model.
BytesToStr(bs) ==
  IF \E s \in KnownStrings : StrBytes[s] = bs
    THEN CHOOSE s \in KnownStrings : StrBytes[s] = bs
    ELSE "<other>"

(***************************************************************************)
(* String.prototype.trim and toLowerCase, on ASCII codes.                  *)
(***************************************************************************)
RECURSIVE TrimLeft(_)
TrimLeft(bs) ==
  IF bs # <<>> /\ Head(bs) = 32 THEN TrimLeft(Tail(bs)) ELSE bs

RECURSIVE TrimRight(_)
TrimRight(bs) ==
  IF bs # <<>> /\ bs[Len(bs)] = 32 THEN TrimRight(SubSeq(bs, 1, Len(bs) - 1)) ELSE bs

Trim(bs) == TrimRight(TrimLeft(bs))

ToLowerCase(bs) ==
  [i \in 1..Len(bs) |-> IF bs[i] >= 65 /\ bs[i] <= 90 THEN bs[i] + 32 ELSE bs[i]]

TrimStr(s) == BytesToStr(Trim(StrBytes[s]))
LowerStr(s) == BytesToStr(ToLowerCase(StrBytes[s]))

(***************************************************************************)
(* Buffer <-> base64url text, and Buffer -> utf8 string.                   *)
(***************************************************************************)
ByteAt(bs, i) == IF i <= Len(bs) THEN bs[i] ELSE 0

\* toString("base64url") that leaves out the digits of a final group of 1 or
\* 2 bytes.
Base64UrlEncodeWholeGroups(bs) ==
  [j \in 1..((Len(bs) \div 3) * 4) |->
     LET g  == (j - 1) \div 4
         b0 == bs[3 * g + 1]
         b1 == bs[3 * g + 2]
         b2 == bs[3 * g + 3]
     IN CASE (j - 1) % 4 = 0 -> b0 \div 4
          [] (j - 1) % 4 = 1 -> (b0 % 4) * 16 + b1 \div 16
          [] (j - 1) % 4 = 2 -> (b1 % 16) * 4 + b2 \div 64
          [] OTHER           -> b2 % 64]

\* Buffer.prototype.toString("base64url"): 3 bytes -> 4 digits, no padding.
Base64UrlEncode(bs) ==
  [j \in 1..((Len(bs) * 4 + 2) \div 3) |->
     LET g  == (j - 1) \div 4
         b0 == ByteAt(bs, 3 * g + 1)
         b1 == ByteAt(bs, 3 * g + 2)
         b2 == ByteAt(bs, 3 * g + 3)
     IN CASE (j - 1) % 4 = 0 -> b0 \div 4
          [] (j - 1) % 4 = 1 -> (b0 % 4) * 16 + b1 \div 16
          [] (j - 1) % 4 = 2 -> (b1 % 16) * 4 + b2 \div 64
          [] OTHER           -> b2 % 64]

\* Buffer.from(text, "base64url"): 4 digits -> 3 bytes; a final group of 2 or
\* 3 digits gives 1 or 2 bytes and its unused low bits are dropped unchecked;
\* a final single digit gives no byte.
Base64UrlDecode(cs) ==
  [j \in 1..((Len(cs) * 3) \div 4) |->
     LET g  == (j - 1) \div 3
         c0 == cs[4 * g + 1]
         c1 == cs[4 * g + 2]
         c2 == IF 4 * g + 3 <= Len(cs) THEN cs[4 * g + 3] ELSE 0
         c3 == IF 4 * g + 4 <= Len(cs) THEN cs[4 * g + 4] ELSE 0
     IN CASE (j - 1) % 3 = 0 -> c0 * 4 + c1 \div 16
          [] (j - 1) % 3 = 1 -> (c1 % 16) * 16 + c2 \div 4
          [] OTHER           -> (c2 % 4) * 64 + c3]

\* Buffer.prototype.toString("utf8") on bytes that are ASCII except for lone
\* bytes >= 0x80, each of which decodes to U+FFFD.
Utf8Decode(bs) ==
  [i \in 1..Len(bs) |-> IF bs[i] >= 128 THEN ReplacementChar ELSE bs[i]]

(***************************************************************************)
(* Digests.                                                                *)
(***************************************************************************)
DigestBits == 15
SigLen == 5
DigestMod == 2 ^ DigestBits

DigestStep(m, h, c) == (h * m + c + 1) % DigestMod

\* A keyed digest of DigestBits bits of the code units of str from i on:
\* h * m^n + sum of (str[i] + 1) * m^(n - i), modulo DigestMod, four code
\* units at a time.  The running digest h stays below DigestMod; comparing it
\* first has each block's digest computed before the next block is taken.
RECURSIVE Horner(_, _, _, _)
Horner(m, h, str, i) ==
  IF h >= DigestMod \/ i > Len(str) THEN h
  ELSE IF i + 3 <= Len(str)
    THEN Horner(m,
                DigestStep(m, DigestStep(m, DigestStep(m, DigestStep(m, h, str[i]),
                                                       str[i + 1]), str[i + 2]), str[i + 3]),
                str, i + 4)
    ELSE Horner(m, DigestStep(m, h, str[i]), str, i + 1)

Digest(m, init, str) == Horner(m, init, str, 1)

\* A token key that does not depend on the private key.
createTokenKeyFixed(privateKey) == <<7, 11>>

\* createHash("sha256").update(privateKey, "utf8").digest(): two digests of
\* DigestBits bits each.
createTokenKey(privateKey) == <<Digest(31, 7, privateKey), Digest(37, 11, privateKey)>>

\* createHmac("sha256", key).update(payloadJson, "utf8").digest("base64url")
signToken(payloadJson, key) ==
  LET h == Digest(31, key[1], payloadJson) * DigestMod + Digest(37, key[2], payloadJson)
  IN [j \in 1..SigLen |-> (h \div (64 ^ (SigLen - j))) % 64]

(***************************************************************************)
(* The pending order (type PendingOrder) and its JSON text.                *)
(* Keys: a action, c createdAtMs, e expiresAtMs, k sessionKey, m market    *)
(* (its slug), t tokenId, s side, o outcome, p price, z size,              *)
(* n approxNotionalUsd.  A property whose value is undefined is omitted,   *)
(* as JSON.stringify omits it.                                             *)
(***************************************************************************)
EmptyPending ==
  [action |-> Undefined, createdAtMs |-> NoNumber, expiresAtMs |-> NoNumber,
   sessionKey |-> Undefined, market |-> [slug |-> Undefined], tokenId |-> Undefined,
   side |-> Undefined, outcome |-> Undefined, price |-> NoNumber, size |-> NoNumber,
   approxNotionalUsd |-> NoNumber]

RECURSIVE NumBytes(_)
NumBytes(n) ==
  IF n < 10 THEN <<48 + n>> ELSE NumBytes(n \div 10) \o <<48 + (n % 10)>>

StrField(key, v) ==
  IF v = Undefined THEN <<>> ELSE <<key, 58, 34>> \o StrBytes[v] \o <<34>>

NumField(key, n) ==
  IF n = NoNumber THEN <<>> ELSE <<key, 58>> \o NumBytes(n)

RECURSIVE JoinFields(_, _)
JoinFields(fields, first) ==
  IF fields = <<>> THEN <<>>
  ELSE IF Head(fields) = <<>> THEN JoinFields(Tail(fields), first)
  ELSE (IF first THEN <<>> ELSE <<44>>) \o Head(fields) \o JoinFields(Tail(fields), FALSE)

\* JSON.stringify(payload)
JsonStringify(d) ==
  <<123>> \o
  JoinFields(<<StrField(97, d.action), NumField(99, d.createdAtMs),
               NumField(101, d.expiresAtMs), StrField(107, d.sessionKey),
               StrField(109, d.market.slug), StrField(116, d.tokenId),
               StrField(115, d.side), StrField(111, d.outcome),
               NumField(112, d.price), NumField(122, d.size),
               NumField(110, d.approxNotionalUsd)>>, TRUE)
  \o <<125>>

IsDigit(c) == c >= 48 /\ c <= 57

\* Index of the first quote at or after i, or 0.
RECURSIVE FindQuote(_, _)
FindQuote(s, i) ==
  IF i > Len(s) THEN 0 ELSE IF s[i] = 34 THEN i ELSE FindQuote(s, i + 1)

\* Index of the first non-digit at or after i (Len(s) + 1 when there is none).
RECURSIVE ScanDigits(_, _)
ScanDigits(s, i) ==
  IF i > Len(s) \/ ~IsDigit(s[i]) THEN i ELSE ScanDigits(s, i + 1)

RECURSIVE DecValue(_, _, _, _)
DecValue(s, i, j, acc) ==
  IF i >= j THEN acc ELSE DecValue(s, i + 1, j, acc * 10 + (s[i] - 48))

SetField(d, key, v) ==
  CASE key = 97  -> [d EXCEPT !.action = v]
    [] key = 99  -> [d EXCEPT !.createdAtMs = v]
    [] key = 101 -> [d EXCEPT !.expiresAtMs = v]
    [] key = 107 -> [d EXCEPT !.sessionKey = v]
    [] key = 109 -> [d EXCEPT !.market = [slug |-> v]]
    [] key = 116 -> [d EXCEPT !.tokenId = v]
    [] key = 115 -> [d EXCEPT !.side = v]
    [] key = 111 -> [d EXCEPT !.outcome = v]
    [] key = 112 -> [d EXCEPT !.price = v]
    [] key = 122 -> [d EXCEPT !.size = v]
    [] key = 110 -> [d EXCEPT !.approxNotionalUsd = v]

JsonKeys == {97, 99, 101, 107, 109, 116, 115, 111, 112, 122, 110}

SyntaxError == [kind |-> "syntax", value |-> EmptyPending]

\* The members of an object from position i on: key ":" value ("," | "}").
RECURSIVE ParseFields(_, _, _)
ParseFields(s, i, d) ==
  IF i + 2 > Len(s) \/ s[i] \notin JsonKeys \/ s[i + 1] # 58 THEN SyntaxError
  ELSE
    LET isStr == s[i + 2] = 34
        q     == FindQuote(s, i + 3)
        j     == ScanDigits(s, i + 2)
        next  == IF isStr THEN q + 1 ELSE j
        v     == IF isStr THEN BytesToStr(SubSeq(s, i + 3, q - 1))
                 ELSE DecValue(s, i + 2, j, 0)
    IN IF (isStr /\ q = 0) \/ (~isStr /\ j = i + 2) \/ next > Len(s) THEN SyntaxError
       ELSE IF s[next] = 125
         THEN IF next = Len(s)
                THEN [kind |-> "object", value |-> SetField(d, s[i], v)]
                ELSE SyntaxError
       ELSE IF s[next] = 44 THEN ParseFields(s, next + 1, SetField(d, s[i], v))
       ELSE SyntaxError

\* JSON.parse(json): an object, another JSON value (a number or a string), or
\* a SyntaxError.
JsonParse(s) ==
  IF s = <<>> THEN SyntaxError
  ELSE IF s[1] = 123
    THEN IF s = <<123, 125>> THEN [kind |-> "object", value |-> EmptyPending]
         ELSE ParseFields(s, 2, EmptyPending)
  ELSE IF IsDigit(s[1])
    THEN IF ScanDigits(s, 1) = Len(s) + 1
           THEN [kind |-> "other", value |-> EmptyPending] ELSE SyntaxError
  ELSE IF s[1] = 34 /\ Len(s) >= 2 /\ FindQuote(s, 2) = Len(s)
    THEN [kind |-> "other", value |-> EmptyPending]
  ELSE SyntaxError

(***************************************************************************)
(* The resume token.                                                       *)
(***************************************************************************)
\* encodeResumeToken(payload, privateKey)
encodeResumeToken(payload, privateKey) ==
  LET payloadJson == JsonStringify(payload)
      key  == createTokenKey(privateKey)
      sig  == signToken(payloadJson, key)
      body == Base64UrlEncode(payloadJson)
  IN body \o <<Dot>> \o sig

\* token.split("."): the pieces between the dots.
Split(token) ==
  LET dots == {i \in 1..Len(token) : token[i] = Dot}
      n    == Cardinality(dots)
      cut(k) == IF k = 0 THEN 0
                ELSE IF k = n + 1 THEN Len(token) + 1
                ELSE CHOOSE p \in dots : Cardinality({q \in dots : q < p}) = k - 1
  IN [k \in 1..(n + 1) |-> SubSeq(token, cut(k - 1) + 1, cut(k) - 1)]

Thrown(message) == [ok |-> FALSE, error |-> message, pending |-> EmptyPending]

\* Lines 291-297 of decodeResumeToken: the token has two parts and its
\* signature is the one signToken gives for the decoded payload.
TokenVerifies(token, privateKey) ==
  LET parts == Split(token)
  IN /\ privateKey # <<>>
     /\ Len(parts) = 2
     /\ parts[2] = signToken(Utf8Decode(Base64UrlDecode(parts[1])), createTokenKey(privateKey))

\* decodeResumeToken without the comparison of the signature.
decodeResumeTokenUnsigned(token, privateKey) ==
  LET parts == Split(token)
  IN IF Len(parts) # 2 THEN Thrown("Invalid token format")
     ELSE
       LET parsed == JsonParse(Utf8Decode(Base64UrlDecode(parts[1])))
       IN IF parsed.kind = "syntax" THEN Thrown("SyntaxError")
          ELSE IF parsed.kind # "object" THEN Thrown("Invalid token payload")
          ELSE [ok |-> TRUE, error |-> "", pending |-> parsed.value]

\* decodeResumeToken(token, privateKey): the pending order, or the Error thrown.
decodeResumeToken(token, privateKey) ==
  LET parts == Split(token)
  IN IF Len(parts) # 2 THEN Thrown("Invalid token format")
     ELSE
       LET body     == parts[1]
           sig      == parts[2]
           json     == Utf8Decode(Base64UrlDecode(body))
           key      == createTokenKey(privateKey)
           expected == signToken(json, key)
       IN IF Len(sig) # Len(expected) \/ sig # expected
            THEN Thrown("Invalid token signature")
          ELSE
            LET parsed == JsonParse(json)
            IN IF parsed.kind = "syntax" THEN Thrown("SyntaxError")
               ELSE IF parsed.kind # "object" THEN Thrown("Invalid token payload")
               ELSE [ok |-> TRUE, error |-> "", pending |-> parsed.value]

(***************************************************************************)
(* Configuration and credential.                                           *)
(***************************************************************************)
PriceScale == 1000
DefaultMaxNotionalUsd == 25
NaN == -2

\* resolvePluginConfig with normalizeBoolean(raw.tradeEnabled, true): trading
\* is enabled unless the configuration says false.
resolvePluginConfigEnabledByDefault(raw) ==
  [tradeEnabled |-> (raw.tradeEnabled # "false"),
   maxNotionalUsd |->
     LET n == IF raw.maxNotionalUsd = NoNumber THEN DefaultMaxNotionalUsd
              ELSE raw.maxNotionalUsd
     IN IF n > 0 THEN n ELSE 0,
   allowedMarketSlugs |->
     SelectSeq([i \in 1..Len(raw.allowedMarketSlugs) |-> TrimStr(raw.allowedMarketSlugs[i])],
               LAMBDA e : e # "")]

\* resolvePluginConfig(api): raw.tradeEnabled is "true", "false" or "unset";
\* raw.maxNotionalUsd is a number of USD or NoNumber (unset);
\* raw.allowedMarketSlugs is a list of strings (empty when unset).
resolvePluginConfig(raw) ==
  [tradeEnabled |-> (raw.tradeEnabled = "true"),
   maxNotionalUsd |->
     LET n == IF raw.maxNotionalUsd = NoNumber THEN DefaultMaxNotionalUsd
              ELSE raw.maxNotionalUsd
     IN IF n > 0 THEN n ELSE 0,
   allowedMarketSlugs |->
     SelectSeq([i \in 1..Len(raw.allowedMarketSlugs) |-> TrimStr(raw.allowedMarketSlugs[i])],
               LAMBDA e : e # "")]

\* resolvePrivateKey that falls back on a built-in key ("0x") when the three
\* variables are blank.
resolvePrivateKeyOrBuiltIn(e) ==
  LET fromPrimary  == Trim(e.primary)
      fromFallback == Trim(e.POLYMARKET_PRIVATE_KEY)
      fromDocs     == Trim(e.PRIVATE_KEY)
      raw == IF fromPrimary # <<>> THEN fromPrimary
             ELSE IF fromFallback # <<>> THEN fromFallback ELSE fromDocs
  IN IF Len(raw) >= 2 /\ raw[1] = 48 /\ raw[2] = 120 THEN raw
     ELSE <<48, 120>> \o raw

NoKey == <<>>

\* resolvePrivateKey(config): the first non-blank of the three environment
\* variables, trimmed, with "0x" prefixed when it is missing; NoKey when all
\* are blank.
resolvePrivateKey(e) ==
  LET fromPrimary  == Trim(e.primary)
      fromFallback == Trim(e.POLYMARKET_PRIVATE_KEY)
      fromDocs     == Trim(e.PRIVATE_KEY)
      raw == IF fromPrimary # <<>> THEN fromPrimary
             ELSE IF fromFallback # <<>> THEN fromFallback ELSE fromDocs
  IN IF raw = <<>> THEN NoKey
     ELSE IF Len(raw) >= 2 /\ raw[1] = 48 /\ raw[2] = 120 THEN raw
     ELSE <<48, 120>> \o raw

(***************************************************************************)
(* Safety checks and outcome resolution.                                   *)
(***************************************************************************)
\* isAllowedMarket that does not consult the list.
isAllowedMarketIgnoringList(config, marketSlug) == TRUE

\* isAllowedMarket({config, marketSlug})
isAllowedMarket(config, marketSlug) ==
  LET allow == config.allowedMarketSlugs
      slug  == IF marketSlug = Undefined THEN "" ELSE TrimStr(marketSlug)
  IN IF Len(allow) = 0 THEN TRUE
     ELSE IF slug = "" THEN FALSE
     ELSE \E i \in 1..Len(allow) : TrimStr(allow[i]) = slug

\* approxNotionalUsd that leaves the size out.
approxNotionalUsdOfOneShare(price, size) == price

\* approxNotionalUsd(price, size), in units of 1/PriceScale USD.
approxNotionalUsd(price, size) == price * size

\* isMultipleOfTick(value, tickSize): value and tickSize in units of
\* 1/PriceScale; |round(value/tickSize) - value/tickSize| < 1e-9.
TickToleranceInv == 1000000000

\* isMultipleOfTick without the first line of its body (line 478): the
\* division by a tick size of 0 or NaN gives no finite quotient and the
\* comparison of line 481 is false; a negative tick size divides as its
\* absolute value does.
isMultipleOfTickUnguarded(value, tickSize) ==
  IF tickSize = NaN \/ tickSize = 0 THEN FALSE
  ELSE LET tick == IF tickSize < 0 THEN -tickSize ELSE tickSize
       IN (value % tick) = 0

isMultipleOfTick(value, tickSize) ==
  IF tickSize = NaN \/ tickSize <= 0 THEN TRUE
  ELSE LET rounded == (2 * value + tickSize) \div (2 * tickSize)
           diff    == rounded * tickSize - value
           abs     == IF diff < 0 THEN -diff ELSE diff
       IN abs <= (tickSize - 1) \div TickToleranceInv

\* Number.parseFloat(tickSizeStr), in units of 1/PriceScale.
ParseTickSize(tickSizeStr) ==
  CASE tickSizeStr = "0.1"   -> PriceScale \div 10
    [] tickSizeStr = "0.01"  -> PriceScale \div 100
    [] tickSizeStr = "0.001" -> PriceScale \div 1000
    [] tickSizeStr = "0"     -> 0
    [] tickSizeStr = "-0.01" -> -(PriceScale \div 100)
    [] OTHER                 -> NaN

\* parseJsonStringArray without the filter(Boolean) of line 314.
parseJsonStringArrayUnfiltered(value) == value

\* parseJsonStringArray(value) ?? []: the non-empty strings of the array; a
\* value that is no JSON array of strings is the empty list.
parseJsonStringArray(value) == SelectSeq(value, LAMBDA e : e # "")

\* normalizeOutcomeLabel(value)
normalizeOutcomeLabel(value) == BytesToStr(ToLowerCase(Trim(StrBytes[value])))

Resolved(tokenId, outcome) == [ok |-> TRUE, tokenId |-> tokenId, outcome |-> outcome, error |-> ""]
Unresolved(message) == [ok |-> FALSE, tokenId |-> Undefined, outcome |-> Undefined, error |-> message]

\* resolveOutcomeToken with the yes/no heuristic of lines 345-346 tried
\* before the match against the labels of the market.
resolveOutcomeTokenHeuristicFirst(market, outcome) ==
  LET tokens   == parseJsonStringArray(market.clobTokenIds)
      outcomes == parseJsonStringArray(market.outcomes)
      normalizedOutcome ==
        IF outcome = Undefined \/ outcome = "" THEN Undefined
        ELSE normalizeOutcomeLabel(outcome)
      given == normalizedOutcome # Undefined /\ normalizedOutcome # ""
      hits  == {i \in 1..Len(outcomes) : normalizeOutcomeLabel(outcomes[i]) = normalizedOutcome}
      idx   == CHOOSE i \in hits : \A j \in hits : i <= j
  IN IF Len(tokens) = 0
       THEN Unresolved("Market is missing clobTokenIds; cannot trade via CLOB")
     ELSE IF normalizedOutcome = "yes" THEN Resolved(tokens[1], "Yes")
     ELSE IF normalizedOutcome = "no" /\ Len(tokens) >= 2 THEN Resolved(tokens[2], "No")
     ELSE IF given /\ Len(outcomes) = Len(tokens) /\ Len(outcomes) > 0
       THEN IF hits # {} THEN Resolved(tokens[idx], outcomes[idx])
            ELSE Unresolved("Unknown outcome")
     ELSE IF ~given
       THEN Resolved(tokens[1], IF Len(outcomes) >= 1 THEN outcomes[1] ELSE Undefined)
     ELSE Unresolved("Provide tokenId (or a resolvable outcome) to place an order")

\* resolveOutcomeToken that ends with the first token instead of the throw
\* of line 353.
resolveOutcomeTokenDefaultFirst(market, outcome) ==
  LET tokens   == parseJsonStringArray(market.clobTokenIds)
      outcomes == parseJsonStringArray(market.outcomes)
      normalizedOutcome ==
        IF outcome = Undefined \/ outcome = "" THEN Undefined
        ELSE normalizeOutcomeLabel(outcome)
      given == normalizedOutcome # Undefined /\ normalizedOutcome # ""
      hits  == {i \in 1..Len(outcomes) : normalizeOutcomeLabel(outcomes[i]) = normalizedOutcome}
      idx   == CHOOSE i \in hits : \A j \in hits : i <= j
  IN IF Len(tokens) = 0
       THEN Unresolved("Market is missing clobTokenIds; cannot trade via CLOB")
     ELSE IF given /\ Len(outcomes) = Len(tokens) /\ Len(outcomes) > 0
       THEN IF hits # {} THEN Resolved(tokens[idx], outcomes[idx])
            ELSE Unresolved("Unknown outcome")
     ELSE IF normalizedOutcome = "yes" THEN Resolved(tokens[1], "Yes")
     ELSE IF normalizedOutcome = "no" /\ Len(tokens) >= 2 THEN Resolved(tokens[2], "No")
     ELSE Resolved(tokens[1], IF Len(outcomes) >= 1 THEN outcomes[1] ELSE Undefined)

\* resolveOutcomeToken({market, outcome})
resolveOutcomeToken(market, outcome) ==
  LET tokens   == parseJsonStringArray(market.clobTokenIds)
      outcomes == parseJsonStringArray(market.outcomes)
      normalizedOutcome ==
        IF outcome = Undefined \/ outcome = "" THEN Undefined
        ELSE normalizeOutcomeLabel(outcome)
      given == normalizedOutcome # Undefined /\ normalizedOutcome # ""
      hits  == {i \in 1..Len(outcomes) : normalizeOutcomeLabel(outcomes[i]) = normalizedOutcome}
      idx   == CHOOSE i \in hits : \A j \in hits : i <= j
  IN IF Len(tokens) = 0
       THEN Unresolved("Market is missing clobTokenIds; cannot trade via CLOB")
     ELSE IF given /\ Len(outcomes) = Len(tokens) /\ Len(outcomes) > 0
       THEN IF hits # {} THEN Resolved(tokens[idx], outcomes[idx])
            ELSE Unresolved("Unknown outcome")
     ELSE IF normalizedOutcome = "yes" THEN Resolved(tokens[1], "Yes")
     ELSE IF normalizedOutcome = "no" /\ Len(tokens) >= 2 THEN Resolved(tokens[2], "No")
     ELSE IF ~given
       THEN Resolved(tokens[1], IF Len(outcomes) >= 1 THEN outcomes[1] ELSE Undefined)
     ELSE Unresolved("Provide tokenId (or a resolvable outcome) to place an order")

(***************************************************************************)
(* State.                                                                  *)
(*   clock         Date.now()                                              *)
(*   env           process.env: the three private-key variables            *)
(*   pluginConfig  api.pluginConfig, as written by the administrator       *)
(*   held          the approval request the caller holds: the resumeToken  *)
(*                 and the order shown to it (requiresApproval)            *)
(*   last          the execute call that has just returned: its context,   *)
(*                 its parameters, its result, the calls it made to the    *)
(*                 CLOB client and, for a resume, whether its token        *)
(*                 decodes under the resolved private key and the          *)
(*                 handler's `pending`; for a call of resolveOutcomeToken, *)
(*                 the market given and what it returned (resolved);       *)
(*                 NoCall once the caller has taken the result             *)
(*   ledger        history: in the replay scenario, the terminal outcomes  *)
(*                 of the resumes of the held token so far, oldest first;  *)
(*                 in the codec scenario, the private key under which the  *)
(*                 held token was encoded                                  *)
(***************************************************************************)
VARIABLES clock, env, pluginConfig, held, last, ledger

vars == <<clock, env, pluginConfig, held, last, ledger>>

\* Line 958 with ten minutes in place of five.
ApprovalTtlTenMinutes == 10 * 60 * 1000

\* Line 958: now + 5 * 60 * 1000
ApprovalTtlMs == 5 * 60 * 1000

ClockSlack == 0

\* The instants at which the model lets calls happen.
Times == {0} \cup (ApprovalTtlMs..(ApprovalTtlMs + 1 + ClockSlack))

NoResult ==
  [ok |-> FALSE, status |-> "", errorType |-> "", message |-> "",
   resumeToken |-> <<>>, order |-> EmptyPending,
   orderID |-> Undefined, orderStatus |-> Undefined, privateKeyPresent |-> FALSE]

Failure(type) == [NoResult EXCEPT !.errorType = type]

\* The catch block of execute: any throw becomes {ok: false, error: {type: "error", message}}.
Caught(message) == [NoResult EXCEPT !.errorType = "error", !.message = message]

NoArgs ==
  [tokenId |-> "", marketSlug |-> "", marketId |-> "", outcome |-> "", side |-> "",
   price |-> NoNumber, size |-> NoNumber,
   token |-> <<>>, approve |-> FALSE, approveType |-> "undefined",
   orderId |-> "", confirm |-> FALSE, confirmType |-> "undefined", query |-> ""]

NoCtx == [sandboxed |-> FALSE, sessionKey |-> Undefined]

\* No market: what stands for the market when resolveGammaMarket throws.
NoMarket == [found |-> FALSE, id |-> Undefined, slug |-> Undefined,
             outcomes |-> <<>>, clobTokenIds |-> <<>>]

NoCall ==
  [action |-> "", ctx |-> NoCtx, args |-> NoArgs, now |-> 0,
   result |-> NoResult, calls |-> <<>>, verified |-> FALSE, pending |-> EmptyPending,
   market |-> NoMarket, resolved |-> Unresolved("")]

NoHeld == [resumeToken |-> <<>>, order |-> EmptyPending]

(***************************************************************************)
(* The Gamma API (resolveGammaMarket): the market with a slug or an id, or *)
(* an HTTP error.                                                          *)
(***************************************************************************)
GammaMarkets ==
  {[found |-> TRUE, id |-> "1", slug |-> "m1",
    outcomes |-> <<"Yes", "No">>, clobTokenIds |-> <<"T1", "T2">>],
   [found |-> TRUE, id |-> "2", slug |-> "m2",
    outcomes |-> <<>>, clobTokenIds |-> <<"X9">>]}

resolveGammaMarket(marketId, marketSlug) ==
  LET hits == IF marketSlug # "" THEN {m \in GammaMarkets : m.slug = marketSlug}
              ELSE {m \in GammaMarkets : m.id = marketId}
  IN IF hits = {} THEN NoMarket ELSE CHOOSE m \in hits : TRUE

(***************************************************************************)
(* execute, action "place_order" (lines 850-986).  Gives the result and    *)
(* the order staged.                                                       *)
(***************************************************************************)
\* Lines 918-926 with the branch of line 918 never taken: the token comes
\* from the market whenever there is one.
ResolutionNeverBypassed(tokenIdFromArgs) == FALSE

\* Line 918: if (tokenIdFromArgs)
ResolutionBypassed(tokenIdFromArgs) == tokenIdFromArgs # ""

PlaceOrderResult(config, privateKey, ctx, args, now) ==
  LET tokenIdFromArgs == TrimStr(args.tokenId)
      marketSlug      == TrimStr(args.marketSlug)
      marketId        == TrimStr(args.marketId)
      outcome         == TrimStr(args.outcome)
      hasAllowlist    == Len(config.allowedMarketSlugs) > 0
      wantsMarket     == marketSlug # "" \/ marketId # ""
      market          == IF wantsMarket THEN resolveGammaMarket(marketId, marketSlug)
                         ELSE NoMarket
      resolved        == resolveOutcomeToken(market, outcome)
      bypassed        == ResolutionBypassed(tokenIdFromArgs)
      tokenId         == IF bypassed THEN tokenIdFromArgs ELSE resolved.tokenId
      resolvedOutcome == IF bypassed THEN Undefined ELSE resolved.outcome
      side            == LowerStr(TrimStr(args.side))
      approx          == approxNotionalUsd(args.price, args.size)
      order ==
        [action |-> "place_order",
         createdAtMs |-> now,
         expiresAtMs |-> now + ApprovalTtlMs,
         sessionKey |-> ctx.sessionKey,
         market |-> [slug |-> IF market.found /\ market.slug # Undefined THEN market.slug
                              ELSE marketSlug],
         tokenId |-> tokenId,
         side |-> side,
         outcome |-> IF resolvedOutcome # Undefined THEN resolvedOutcome ELSE outcome,
         price |-> args.price,
         size |-> args.size,
         approxNotionalUsd |-> approx]
  IN IF ~config.tradeEnabled THEN Failure("trading_disabled")
     ELSE IF ctx.sandboxed THEN Failure("sandboxed")
     ELSE IF privateKey = NoKey THEN Failure("missing_private_key")
     ELSE IF wantsMarket /\ ~market.found THEN Caught("HTTP 404")
     ELSE IF ~wantsMarket /\ hasAllowlist THEN Failure("market_required")
     ELSE IF wantsMarket /\ ~isAllowedMarket(config, market.slug)
       THEN Failure("market_not_allowed")
     ELSE IF ~bypassed /\ wantsMarket /\ ~resolved.ok THEN Caught(resolved.error)
     ELSE IF ~bypassed /\ ~wantsMarket
       THEN Caught("Provide tokenId (or provide marketSlug/marketId and outcome) to place an order")
     ELSE IF TrimStr(args.side) = "" THEN Caught("side required")
     ELSE IF side # "buy" /\ side # "sell" THEN Caught("side must be buy or sell")
     ELSE IF args.price = NoNumber THEN Caught("price required")
     ELSE IF args.size = NoNumber THEN Caught("size required")
     ELSE IF args.price <= 0 \/ args.price >= PriceScale
       THEN Caught("price must be between 0 and 1 (exclusive)")
     ELSE IF args.size <= 0 THEN Caught("size must be > 0")
     ELSE IF config.maxNotionalUsd > 0 /\ approx > config.maxNotionalUsd * PriceScale
       THEN Failure("notional_limit")
     ELSE [NoResult EXCEPT !.ok = TRUE, !.status = "needs_approval",
                           !.resumeToken = encodeResumeToken(order, privateKey),
                           !.order = order]

(***************************************************************************)
(* The CLOB client.  One resume call meets one scenario of the venue:      *)
(* whether the client can be built (resolveClobClient), the tick size and  *)
(* the neg-risk flag it reports for the token, and what it does with the   *)
(* order ("posted", "rejected": a response without an orderID, "throws").  *)
(* A call is recorded with its arguments and with what it returned          *)
(* ("throws" when it threw).                                               *)
(***************************************************************************)
ClientCall(op, returned) ==
  [op |-> op, returned |-> returned, tokenID |-> Undefined, price |-> NoNumber,
   size |-> NoNumber, side |-> Undefined, tickSize |-> Undefined, negRisk |-> FALSE,
   orderID |-> Undefined]

PostResponse(post) ==
  IF post = "posted" THEN [orderID |-> "0xorder", status |-> "live"]
  ELSE [orderID |-> Undefined, status |-> "400"]

(***************************************************************************)
(* execute, action "resume" (lines 988-1089).  Gives the result, the calls *)
(* made to the CLOB client, in order, and the handler's `pending`.         *)
(***************************************************************************)
Outcome(result, calls, pending) == [result |-> result, calls |-> calls, pending |-> pending]

\* Line 1014: pending.expiresAtMs && now > pending.expiresAtMs
TokenExpiredAtOrAfter(pending, now) ==
  pending.expiresAtMs # NoNumber /\ pending.expiresAtMs # 0 /\ now >= pending.expiresAtMs

TokenNeverExpires(pending, now) == FALSE

TokenExpired(pending, now) ==
  pending.expiresAtMs # NoNumber /\ pending.expiresAtMs # 0 /\ now > pending.expiresAtMs

\* Line 1020 with the comparison left out.
SessionNeverMismatches(pending, ctx) == FALSE

\* Line 1020: pending.sessionKey && params.ctx.sessionKey
\*            && pending.sessionKey !== params.ctx.sessionKey
SessionMismatch(pending, ctx) ==
  /\ pending.sessionKey # Undefined /\ pending.sessionKey # ""
  /\ ctx.sessionKey # Undefined /\ ctx.sessionKey # ""
  /\ pending.sessionKey # ctx.sessionKey

\* Line 1053: Number.isFinite(tickSizeNum) && !isMultipleOfTick(pending.price, tickSizeNum)
TickUnchecked(price, tickSizeNum) == FALSE

TickMisaligned(price, tickSizeNum) ==
  tickSizeNum # NaN /\ ~isMultipleOfTick(price, tickSizeNum)

\* Line 1065 with every order sent as a buy.
OrderSideAlwaysBuy(side) == "BUY"

\* Line 1065: pending.side === "buy" ? Side.BUY : Side.SELL
OrderSide(side) == IF side = "buy" THEN "BUY" ELSE "SELL"

\* ResumeVenue with one more attempt after a createAndPostOrder that threw.
ResumeVenueRetrying(pending, venue) ==
  LET build      == ClientCall("createOrDeriveApiKey", venue.client)
      getTick    == [ClientCall("getTickSize", venue.tickSize) EXCEPT
                       !.tokenID = pending.tokenId]
      getNegRisk == [ClientCall("getNegRisk", venue.negRisk) EXCEPT
                       !.tokenID = pending.tokenId]
      tickSizeStr == venue.tickSize
      tickSizeNum == ParseTickSize(tickSizeStr)
      negRisk     == (venue.negRisk = "true")
      post == [ClientCall("createAndPostOrder", venue.post) EXCEPT
                 !.tokenID = pending.tokenId, !.price = pending.price,
                 !.size = pending.size,
                 !.side = OrderSide(pending.side),
                 !.tickSize = tickSizeStr, !.negRisk = negRisk]
      response == PostResponse(venue.post)
  IN IF venue.client = "throws" THEN Outcome(Caught("client"), <<build>>, pending)
     ELSE IF venue.tickSize = "throws"
       THEN Outcome(Caught("getTickSize"), <<build, getTick>>, pending)
     ELSE IF TickMisaligned(pending.price, tickSizeNum)
       THEN Outcome(Failure("invalid_tick"), <<build, getTick>>, pending)
     ELSE IF venue.negRisk = "throws"
       THEN Outcome(Caught("getNegRisk"), <<build, getTick, getNegRisk>>, pending)
     ELSE IF venue.post = "throws"
       THEN Outcome(Caught("createAndPostOrder"),
                    <<build, getTick, getNegRisk, post, post>>, pending)
     ELSE Outcome([NoResult EXCEPT !.ok = TRUE, !.status = "ok",
                                   !.orderID = response.orderID,
                                   !.orderStatus = response.status],
                  <<build, getTick, getNegRisk, post>>, pending)

\* Lines 1050-1076: from resolveClobClient to the response of
\* createAndPostOrder.
ResumeVenue(pending, venue) ==
  LET build      == ClientCall("createOrDeriveApiKey", venue.client)
      getTick    == [ClientCall("getTickSize", venue.tickSize) EXCEPT
                       !.tokenID = pending.tokenId]
      getNegRisk == [ClientCall("getNegRisk", venue.negRisk) EXCEPT
                       !.tokenID = pending.tokenId]
      tickSizeStr == venue.tickSize
      tickSizeNum == ParseTickSize(tickSizeStr)
      negRisk     == (venue.negRisk = "true")
      post == [ClientCall("createAndPostOrder", venue.post) EXCEPT
                 !.tokenID = pending.tokenId, !.price = pending.price,
                 !.size = pending.size,
                 !.side = OrderSide(pending.side),
                 !.tickSize = tickSizeStr, !.negRisk = negRisk]
      response == PostResponse(venue.post)
  IN IF venue.client = "throws" THEN Outcome(Caught("client"), <<build>>, pending)
     ELSE IF venue.tickSize = "throws"
       THEN Outcome(Caught("getTickSize"), <<build, getTick>>, pending)
     ELSE IF TickMisaligned(pending.price, tickSizeNum)
       THEN Outcome(Failure("invalid_tick"), <<build, getTick>>, pending)
     ELSE IF venue.negRisk = "throws"
       THEN Outcome(Caught("getNegRisk"), <<build, getTick, getNegRisk>>, pending)
     ELSE IF venue.post = "throws"
       THEN Outcome(Caught("createAndPostOrder"),
                    <<build, getTick, getNegRisk, post>>, pending)
     ELSE Outcome([NoResult EXCEPT !.ok = TRUE, !.status = "ok",
                                   !.orderID = response.orderID,
                                   !.orderStatus = response.status],
                  <<build, getTick, getNegRisk, post>>, pending)

\* ResumeChecks with the decision of line 1026 taken before the token is
\* decoded at line 1012.
ResumeChecksDecisionFirst(config, privateKey, ctx, args, now, decoded) ==
  LET pending == decoded.pending
  IN IF ctx.sandboxed THEN Outcome(Failure("sandboxed"), <<>>, EmptyPending)
     ELSE IF args.token = <<>> THEN Outcome(Caught("token required"), <<>>, EmptyPending)
     ELSE IF args.approveType # "boolean"
       THEN Outcome(Caught("approve required (boolean)"), <<>>, EmptyPending)
     ELSE IF privateKey = NoKey
       THEN Outcome(Failure("missing_private_key"), <<>>, EmptyPending)
     ELSE IF ~args.approve
       THEN Outcome([NoResult EXCEPT !.ok = TRUE, !.status = "cancelled"], <<>>, pending)
     ELSE IF ~decoded.ok THEN Outcome(Caught(decoded.error), <<>>, EmptyPending)
     ELSE IF TokenExpired(pending, now) THEN Outcome(Failure("expired"), <<>>, pending)
     ELSE IF SessionMismatch(pending, ctx)
       THEN Outcome(Failure("session_mismatch"), <<>>, pending)
     ELSE IF ~config.tradeEnabled THEN Outcome(Failure("trading_disabled"), <<>>, pending)
     ELSE IF pending.action # "place_order"
       THEN Outcome(Failure("unsupported"), <<>>, pending)
     ELSE IF Len(config.allowedMarketSlugs) > 0
             /\ ~isAllowedMarket(config, pending.market.slug)
       THEN Outcome(Failure("market_not_allowed"), <<>>, pending)
     ELSE Outcome([NoResult EXCEPT !.status = "proceed"], <<>>, pending)

\* ResumeChecks with the trading-enabled check of line 1029 moved before the
\* decision of line 1026.
ResumeChecksGateFirst(config, privateKey, ctx, args, now, decoded) ==
  LET pending == decoded.pending
  IN IF ctx.sandboxed THEN Outcome(Failure("sandboxed"), <<>>, EmptyPending)
     ELSE IF args.token = <<>> THEN Outcome(Caught("token required"), <<>>, EmptyPending)
     ELSE IF args.approveType # "boolean"
       THEN Outcome(Caught("approve required (boolean)"), <<>>, EmptyPending)
     ELSE IF privateKey = NoKey
       THEN Outcome(Failure("missing_private_key"), <<>>, EmptyPending)
     ELSE IF ~decoded.ok THEN Outcome(Caught(decoded.error), <<>>, EmptyPending)
     ELSE IF TokenExpired(pending, now) THEN Outcome(Failure("expired"), <<>>, pending)
     ELSE IF SessionMismatch(pending, ctx)
       THEN Outcome(Failure("session_mismatch"), <<>>, pending)
     ELSE IF ~config.tradeEnabled THEN Outcome(Failure("trading_disabled"), <<>>, pending)
     ELSE IF ~args.approve
       THEN Outcome([NoResult EXCEPT !.ok = TRUE, !.status = "cancelled"], <<>>, pending)
     ELSE IF pending.action # "place_order"
       THEN Outcome(Failure("unsupported"), <<>>, pending)
     ELSE IF Len(config.allowedMarketSlugs) > 0
             /\ ~isAllowedMarket(config, pending.market.slug)
       THEN Outcome(Failure("market_not_allowed"), <<>>, pending)
     ELSE Outcome([NoResult EXCEPT !.status = "proceed"], <<>>, pending)

\* ResumeChecks without the allowlist check of lines 1038-1048: the allowlist
\* is consulted at place_order only.
ResumeChecksAllowlistAtStagingOnly(config, privateKey, ctx, args, now, decoded) ==
  LET pending == decoded.pending
  IN IF ctx.sandboxed THEN Outcome(Failure("sandboxed"), <<>>, EmptyPending)
     ELSE IF args.token = <<>> THEN Outcome(Caught("token required"), <<>>, EmptyPending)
     ELSE IF args.approveType # "boolean"
       THEN Outcome(Caught("approve required (boolean)"), <<>>, EmptyPending)
     ELSE IF privateKey = NoKey
       THEN Outcome(Failure("missing_private_key"), <<>>, EmptyPending)
     ELSE IF ~decoded.ok THEN Outcome(Caught(decoded.error), <<>>, EmptyPending)
     ELSE IF TokenExpired(pending, now) THEN Outcome(Failure("expired"), <<>>, pending)
     ELSE IF SessionMismatch(pending, ctx)
       THEN Outcome(Failure("session_mismatch"), <<>>, pending)
     ELSE IF ~args.approve
       THEN Outcome([NoResult EXCEPT !.ok = TRUE, !.status = "cancelled"], <<>>, pending)
     ELSE IF ~config.tradeEnabled THEN Outcome(Failure("trading_disabled"), <<>>, pending)
     ELSE IF pending.action # "place_order"
       THEN Outcome(Failure("unsupported"), <<>>, pending)
     ELSE Outcome([NoResult EXCEPT !.status = "proceed"], <<>>, pending)

\* ResumeChecks backed by a registry of the resumes served so far (the
\* ledger of the instances scenario): a token that has been cancelled or
\* submitted once is refused afterwards.
ResumeChecksSingleUse(config, privateKey, ctx, args, now, decoded) ==
  LET pending == decoded.pending
  IN IF ctx.sandboxed THEN Outcome(Failure("sandboxed"), <<>>, EmptyPending)
     ELSE IF args.token = <<>> THEN Outcome(Caught("token required"), <<>>, EmptyPending)
     ELSE IF args.approveType # "boolean"
       THEN Outcome(Caught("approve required (boolean)"), <<>>, EmptyPending)
     ELSE IF privateKey = NoKey
       THEN Outcome(Failure("missing_private_key"), <<>>, EmptyPending)
     ELSE IF ~decoded.ok THEN Outcome(Caught(decoded.error), <<>>, EmptyPending)
     ELSE IF \E i \in 1..Len(ledger) :
               /\ ledger[i].call.args.token = args.token
               /\ ledger[i].call.result.status \in {"cancelled", "ok"}
       THEN Outcome(Failure("consumed"), <<>>, pending)
     ELSE IF TokenExpired(pending, now) THEN Outcome(Failure("expired"), <<>>, pending)
     ELSE IF SessionMismatch(pending, ctx)
       THEN Outcome(Failure("session_mismatch"), <<>>, pending)
     ELSE IF ~args.approve
       THEN Outcome([NoResult EXCEPT !.ok = TRUE, !.status = "cancelled"], <<>>, pending)
     ELSE IF ~config.tradeEnabled THEN Outcome(Failure("trading_disabled"), <<>>, pending)
     ELSE IF pending.action # "place_order"
       THEN Outcome(Failure("unsupported"), <<>>, pending)
     ELSE IF Len(config.allowedMarketSlugs) > 0
             /\ ~isAllowedMarket(config, pending.market.slug)
       THEN Outcome(Failure("market_not_allowed"), <<>>, pending)
     ELSE Outcome([NoResult EXCEPT !.status = "proceed"], <<>>, pending)

\* Lines 989-1048, the part of resume before the CLOB client is built: a
\* final result, or "proceed".  decoded is what
\* decodeResumeToken(token, privateKey) gives at line 1012.
ResumeChecks(config, privateKey, ctx, args, now, decoded) ==
  LET pending == decoded.pending
  IN IF ctx.sandboxed THEN Outcome(Failure("sandboxed"), <<>>, EmptyPending)
     ELSE IF args.token = <<>> THEN Outcome(Caught("token required"), <<>>, EmptyPending)
     ELSE IF args.approveType # "boolean"
       THEN Outcome(Caught("approve required (boolean)"), <<>>, EmptyPending)
     ELSE IF privateKey = NoKey
       THEN Outcome(Failure("missing_private_key"), <<>>, EmptyPending)
     ELSE IF ~decoded.ok THEN Outcome(Caught(decoded.error), <<>>, EmptyPending)
     ELSE IF TokenExpired(pending, now) THEN Outcome(Failure("expired"), <<>>, pending)
     ELSE IF SessionMismatch(pending, ctx)
       THEN Outcome(Failure("session_mismatch"), <<>>, pending)
     ELSE IF ~args.approve
       THEN Outcome([NoResult EXCEPT !.ok = TRUE, !.status = "cancelled"], <<>>, pending)
     ELSE IF ~config.tradeEnabled THEN Outcome(Failure("trading_disabled"), <<>>, pending)
     ELSE IF pending.action # "place_order"
       THEN Outcome(Failure("unsupported"), <<>>, pending)
     ELSE IF Len(config.allowedMarketSlugs) > 0
             /\ ~isAllowedMarket(config, pending.market.slug)
       THEN Outcome(Failure("market_not_allowed"), <<>>, pending)
     ELSE Outcome([NoResult EXCEPT !.status = "proceed"], <<>>, pending)

(***************************************************************************)
(* execute, the other actions (lines 498-848).  One call meets one         *)
(* scenario of the services: whether the CLOB client can be built          *)
(* (resolveClobClient) and whether the request the action makes first (to  *)
(* the client, or by fetchJson) is answered or throws.  Markets come from  *)
(* the Gamma API above.                                                    *)
(***************************************************************************)
OkResult == [NoResult EXCEPT !.ok = TRUE, !.status = "ok"]

MissingPrivateKey == Outcome(Failure("missing_private_key"), <<>>, EmptyPending)

\* The requests ops made in order through a client built by
\* resolveClobClient; the first of them is the one that may throw.
RunOps(venue, ops) ==
  LET build == ClientCall("createOrDeriveApiKey", venue.client)
  IN IF venue.client = "throws" THEN Outcome(Caught("client"), <<build>>, EmptyPending)
     ELSE IF ops # <<>> /\ venue.answer = "throws"
       THEN Outcome(Caught(ops[1].op), <<build, [ops[1] EXCEPT !.returned = "throws"]>>,
                    EmptyPending)
     ELSE Outcome(OkResult, <<build>> \o ops, EmptyPending)

TokenOp(op, tokenId) == [ClientCall(op, "ok") EXCEPT !.tokenID = tokenId]

\* action "status" (lines 498-525)
StatusOutcome(privateKey) ==
  Outcome([OkResult EXCEPT !.privateKeyPresent = (privateKey # NoKey)], <<>>, EmptyPending)

\* action "balances" (lines 527-553)
BalancesOutcome(privateKey, venue) ==
  IF privateKey = NoKey THEN MissingPrivateKey
  ELSE RunOps(venue, <<ClientCall("getBalanceAllowance", "ok")>>)

\* The tokens of a market an action addresses: the one the outcome resolves
\* to, or all of them (lines 653-661, 717-725).
MissingTokens(market) ==
  LET outcomes == parseJsonStringArray(market.outcomes)
      tokenIds == parseJsonStringArray(market.clobTokenIds)
  IN Len(outcomes) = 0 \/ Len(tokenIds) = 0 \/ Len(outcomes) # Len(tokenIds)

\* action "positions" (lines 555-617)
PositionsOutcome(privateKey, args, venue) ==
  LET marketSlug == TrimStr(args.marketSlug)
      marketId   == TrimStr(args.marketId)
      outcome    == TrimStr(args.outcome)
      market     == resolveGammaMarket(marketId, marketSlug)
      outcomes   == parseJsonStringArray(market.outcomes)
      tokenIds   == parseJsonStringArray(market.clobTokenIds)
      wanted(i)  == outcome = "" \/ normalizeOutcomeLabel(outcome) = ""
                    \/ normalizeOutcomeLabel(outcomes[i]) = normalizeOutcomeLabel(outcome)
      picked     == SelectSeq([i \in 1..Len(outcomes) |-> i], wanted)
  IN IF marketSlug = "" /\ marketId = "" THEN
       Outcome(Caught("marketSlug or marketId required"), <<>>, EmptyPending)
     ELSE IF ~market.found THEN Outcome(Caught("HTTP 404"), <<>>, EmptyPending)
     ELSE IF MissingTokens(market) THEN Outcome(Failure("missing_tokens"), <<>>, EmptyPending)
     ELSE IF privateKey = NoKey THEN MissingPrivateKey
     ELSE RunOps(venue, [k \in 1..Len(picked) |->
                           TokenOp("getBalanceAllowance", tokenIds[picked[k]])])

\* actions "open_orders" (lines 619-680) and "trades" (lines 682-744): op is
\* getOpenOrders or getTrades.
MarketQueryOutcome(op, privateKey, args, venue) ==
  LET tokenId    == TrimStr(args.tokenId)
      marketSlug == TrimStr(args.marketSlug)
      marketId   == TrimStr(args.marketId)
      outcome    == TrimStr(args.outcome)
      market     == resolveGammaMarket(marketId, marketSlug)
      tokenIds   == parseJsonStringArray(market.clobTokenIds)
      resolved   == resolveOutcomeToken(market, outcome)
      build      == ClientCall("createOrDeriveApiKey", venue.client)
  IN IF privateKey = NoKey THEN MissingPrivateKey
     ELSE IF venue.client = "throws" THEN RunOps(venue, <<>>)
     ELSE IF tokenId # "" THEN RunOps(venue, <<TokenOp(op, tokenId)>>)
     ELSE IF marketSlug = "" /\ marketId = "" THEN RunOps(venue, <<ClientCall(op, "ok")>>)
     ELSE IF ~market.found THEN Outcome(Caught("HTTP 404"), <<build>>, EmptyPending)
     ELSE IF MissingTokens(market)
       THEN Outcome(Failure("missing_tokens"), <<build>>, EmptyPending)
     ELSE IF outcome # ""
       THEN IF resolved.ok THEN RunOps(venue, <<TokenOp(op, resolved.tokenId)>>)
            ELSE Outcome(Caught(resolved.error), <<build>>, EmptyPending)
     ELSE RunOps(venue, [k \in 1..Len(tokenIds) |-> TokenOp(op, tokenIds[k])])

\* action "order" (lines 746-761)
OrderOutcome(privateKey, args, venue) ==
  LET orderId == TrimStr(args.orderId)
  IN IF orderId = "" THEN Outcome(Caught("orderId required"), <<>>, EmptyPending)
     ELSE IF privateKey = NoKey THEN MissingPrivateKey
     ELSE RunOps(venue, <<[ClientCall("getOrder", "ok") EXCEPT !.orderID = orderId]>>)

\* action "cancel_order" without the sandbox check of line 764.
CancelOrderOutcomeInSandbox(privateKey, ctx, args, venue) ==
  LET orderId == TrimStr(args.orderId)
  IN IF orderId = "" THEN Outcome(Caught("orderId required"), <<>>, EmptyPending)
     ELSE IF privateKey = NoKey THEN MissingPrivateKey
     ELSE RunOps(venue, <<[ClientCall("cancelOrder", "ok") EXCEPT !.orderID = orderId]>>)

\* action "cancel_order" (lines 763-784)
CancelOrderOutcome(privateKey, ctx, args, venue) ==
  LET orderId == TrimStr(args.orderId)
  IN IF ctx.sandboxed THEN Outcome(Failure("sandboxed"), <<>>, EmptyPending)
     ELSE IF orderId = "" THEN Outcome(Caught("orderId required"), <<>>, EmptyPending)
     ELSE IF privateKey = NoKey THEN MissingPrivateKey
     ELSE RunOps(venue, <<[ClientCall("cancelOrder", "ok") EXCEPT !.orderID = orderId]>>)

\* Line 793 with a test of truthiness, if (!rawParams.confirm), in place of
\* the comparison with true.
ConfirmedIfTruthy(args) == args.confirm

\* Line 793: rawParams.confirm !== true fails to hold.  confirm is the
\* truthiness of the parameter and confirmType its typeof.
Confirmed(args) == args.confirmType = "boolean" /\ args.confirm

\* action "cancel_all" (lines 786-815)
CancelAllOutcome(privateKey, ctx, args, venue) ==
  IF ctx.sandboxed THEN Outcome(Failure("sandboxed"), <<>>, EmptyPending)
  ELSE IF ~Confirmed(args)
    THEN Outcome(Failure("confirmation_required"), <<>>, EmptyPending)
  ELSE IF privateKey = NoKey THEN MissingPrivateKey
  ELSE RunOps(venue, <<ClientCall("cancelAll", "ok")>>)

\* fetchJson(url): the JSON of the answer, or the Error of an HTTP failure.
FetchOutcome(venue) ==
  IF venue.answer = "throws" THEN Outcome(Caught("HTTP 500"), <<>>, EmptyPending)
  ELSE Outcome(OkResult, <<>>, EmptyPending)

\* action "search" (lines 817-827)
SearchOutcome(args, venue) ==
  IF TrimStr(args.query) = "" THEN Outcome(Caught("query required"), <<>>, EmptyPending)
  ELSE FetchOutcome(venue)

\* action "market" (lines 829-840)
MarketOutcome(args) ==
  LET marketSlug == TrimStr(args.marketSlug)
      marketId   == TrimStr(args.marketId)
  IN IF marketSlug = "" /\ marketId = "" THEN
       Outcome(Caught("marketSlug or marketId required"), <<>>, EmptyPending)
     ELSE IF ~resolveGammaMarket(marketId, marketSlug).found
       THEN Outcome(Caught("HTTP 404"), <<>>, EmptyPending)
     ELSE Outcome(OkResult, <<>>, EmptyPending)

\* action "orderbook" (lines 842-848)
OrderbookOutcome(args, venue) ==
  IF TrimStr(args.tokenId) = "" THEN Outcome(Caught("tokenId required"), <<>>, EmptyPending)
  ELSE FetchOutcome(venue)

\* execute for the actions other than place_order and resume.
ToolOutcome(action, privateKey, ctx, args, venue) ==
  CASE action = "status"       -> StatusOutcome(privateKey)
    [] action = "balances"     -> BalancesOutcome(privateKey, venue)
    [] action = "positions"    -> PositionsOutcome(privateKey, args, venue)
    [] action = "open_orders"  -> MarketQueryOutcome("getOpenOrders", privateKey, args, venue)
    [] action = "trades"       -> MarketQueryOutcome("getTrades", privateKey, args, venue)
    [] action = "order"        -> OrderOutcome(privateKey, args, venue)
    [] action = "cancel_order" -> CancelOrderOutcome(privateKey, ctx, args, venue)
    [] action = "cancel_all"   -> CancelAllOutcome(privateKey, ctx, args, venue)
    [] action = "search"       -> SearchOutcome(args, venue)
    [] action = "market"       -> MarketOutcome(args)
    [] action = "orderbook"    -> OrderbookOutcome(args, venue)
    [] OTHER                   -> Outcome(Failure("unknown_action"), <<>>, EmptyPending)

(***************************************************************************)
(* Inputs of the calls.                                                    *)
(***************************************************************************)
Contexts ==
  {[sandboxed |-> FALSE, sessionKey |-> Undefined],
   [sandboxed |-> FALSE, sessionKey |-> "s1"],
   [sandboxed |-> FALSE, sessionKey |-> "s2"],
   [sandboxed |-> TRUE,  sessionKey |-> "s1"]}

PlaceOrderArgs ==
  {[NoArgs EXCEPT !.tokenId = "T1", !.side = "buy", !.price = 610, !.size = 10],
   [NoArgs EXCEPT !.marketSlug = "m1", !.outcome = " YES ", !.side = "sell",
                  !.price = 615, !.size = 10],
   [NoArgs EXCEPT !.marketSlug = "m2", !.side = "buy", !.price = 610, !.size = 10],
   [NoArgs EXCEPT !.marketId = "2", !.side = "buy", !.price = 500, !.size = 200],
   [NoArgs EXCEPT !.tokenId = "T1", !.side = "hold", !.price = 1000, !.size = 0],
   [NoArgs EXCEPT !.tokenId = " T2 ", !.marketSlug = "m1", !.outcome = "maybe",
                  !.side = "buy", !.price = 610, !.size = 10],
   [NoArgs EXCEPT !.marketSlug = "m1", !.outcome = "maybe", !.side = "buy",
                  !.price = 610, !.size = 10],
   [NoArgs EXCEPT !.marketSlug = "m2", !.outcome = "maybe", !.side = "buy",
                  !.price = 610, !.size = 10],
   [NoArgs EXCEPT !.tokenId = "T1", !.side = "buy", !.price = 1000, !.size = 10],
   [NoArgs EXCEPT !.tokenId = "T1", !.side = "sell", !.price = 610, !.size = 0],
   [NoArgs EXCEPT !.tokenId = "T1", !.marketSlug = "m2", !.side = "buy",
                  !.price = 610, !.size = 200]}

\* Tokens a caller may present besides the one it holds: that token with one
\* character changed (the first or the last payload character or the last
\* signature character, to the next base64url digit; the separator, to a
\* digit).
TamperedTokens(token) ==
  LET dot == CHOOSE i \in 1..Len(token) : token[i] = Dot
  IN {[token EXCEPT ![1] = (token[1] + 1) % 64],
      [token EXCEPT ![dot - 1] = (token[dot - 1] + 1) % 64],
      [token EXCEPT ![dot] = 0],
      [token EXCEPT ![Len(token)] = (token[Len(token)] + 1) % 64]}

ResumeTokens ==
  IF held.resumeToken = <<>> THEN {<<>>, <<1, Dot, 2>>}
  ELSE {<<>>, held.resumeToken} \cup TamperedTokens(held.resumeToken)

ApproveArgs ==
  {[approve |-> TRUE, approveType |-> "boolean"],
   [approve |-> FALSE, approveType |-> "boolean"],
   [approve |-> FALSE, approveType |-> "undefined"]}

TickSizes == {"0.01", "0.001", "0", "abc"}

NoVenue == [client |-> "ok", tickSize |-> "0.001", negRisk |-> "false", post |-> "posted"]

VenueScenarios ==
  {[NoVenue EXCEPT !.client = "throws"],
   [NoVenue EXCEPT !.tickSize = "throws"],
   [NoVenue EXCEPT !.negRisk = "throws"],
   [NoVenue EXCEPT !.negRisk = "true"],
   [NoVenue EXCEPT !.post = "rejected"],
   [NoVenue EXCEPT !.post = "throws"]}
  \cup {[NoVenue EXCEPT !.tickSize = t] : t \in TickSizes}

PluginConfigs ==
  {[tradeEnabled |-> "true",  maxNotionalUsd |-> 100, allowedMarketSlugs |-> <<>>],
   [tradeEnabled |-> "unset", maxNotionalUsd |-> NoNumber, allowedMarketSlugs |-> <<>>],
   [tradeEnabled |-> "true",  maxNotionalUsd |-> 5, allowedMarketSlugs |-> <<"m1">>],
   [tradeEnabled |-> "true",  maxNotionalUsd |-> -5, allowedMarketSlugs |-> <<"m2", "">>]}

Environments ==
  {[primary |-> <<>>, POLYMARKET_PRIVATE_KEY |-> <<>>, PRIVATE_KEY |-> <<>>],
   [primary |-> <<32>>, POLYMARKET_PRIVATE_KEY |-> <<>>, PRIVATE_KEY |-> <<49, 49>>],
   [primary |-> <<48, 120, 50, 50>>, POLYMARKET_PRIVATE_KEY |-> <<48, 120, 49, 49>>,
    PRIVATE_KEY |-> <<>>]}

ReadOnlyActions ==
  {"status", "search", "market", "orderbook", "balances", "positions", "open_orders",
   "trades", "order"}

CancelActions == {"cancel_order", "cancel_all"}

\* Whether the context is sandboxed is all these actions read of it.
ToolContexts == {c \in Contexts : c.sessionKey = "s1"}

ToolArgs ==
  {NoArgs,
   [NoArgs EXCEPT !.tokenId = "T1", !.orderId = "o1", !.confirm = TRUE,
                  !.confirmType = "boolean", !.query = "q"],
   [NoArgs EXCEPT !.marketSlug = "m1", !.outcome = "no", !.orderId = "o1"],
   [NoArgs EXCEPT !.marketSlug = "m2", !.confirm = TRUE, !.confirmType = "boolean"]}

\* The parameters of the cancelling calls: those above (confirm: true or no
\* confirm), confirm: false, and a confirm that is no boolean, the string
\* "true".
CancelArgs ==
  ToolArgs
    \cup {[NoArgs EXCEPT !.confirm = FALSE, !.confirmType = "boolean"],
          [NoArgs EXCEPT !.orderId = "o1", !.confirm = TRUE, !.confirmType = "string"]}

NoService == [client |-> "ok", answer |-> "ok"]

ServiceScenarios ==
  {NoService, [NoService EXCEPT !.client = "throws"], [NoService EXCEPT !.answer = "throws"]}

(***************************************************************************)
(* Actions.                                                                *)
(***************************************************************************)
Init ==
  /\ clock = 0
  /\ env \in Environments
  /\ pluginConfig \in PluginConfigs
  /\ held = NoHeld
  /\ last = NoCall
  /\ ledger = <<>>

\* One call execute(_, {action: "place_order", ...}) from a context in ctxs
\* with parameters in argss.
PlaceOrderCall(ctxs, argss) ==
  /\ last = NoCall
  /\ \E ctx \in ctxs, args \in argss :
       \E result \in {PlaceOrderResult(resolvePluginConfig(pluginConfig),
                                       resolvePrivateKey(env), ctx, args, clock)} :
          /\ last' = [NoCall EXCEPT !.action = "place_order", !.ctx = ctx, !.args = args,
                                    !.now = clock, !.result = result]
          /\ held' = IF result.ok
                       THEN [resumeToken |-> result.resumeToken, order |-> result.order]
                       ELSE held
  /\ UNCHANGED <<clock, env, pluginConfig>>

\* One call execute(_, {action: "resume", token, approve}) with a token in
\* tokens, meeting a venue scenario in venues when it gets as far as the
\* CLOB client.
ResumeCall(tokens, ctxs, approves, venues) ==
  /\ last = NoCall
  /\ \E token \in tokens :
       \E config \in {resolvePluginConfig(pluginConfig)},
          privateKey \in {resolvePrivateKey(env)} :
         \E decoded \in {decodeResumeToken(token, privateKey)},
            verified \in {TokenVerifies(token, privateKey)} :
           \E ctx \in ctxs, approve \in approves :
             \E args \in {[NoArgs EXCEPT !.token = token, !.approve = approve.approve,
                                         !.approveType = approve.approveType]} :
               \E checks \in {ResumeChecks(config, privateKey, ctx, args, clock, decoded)} :
                 \E venue \in (IF checks.result.status = "proceed" THEN venues
                               ELSE {NoVenue}) :
                   \E out \in {IF checks.result.status = "proceed"
                                 THEN ResumeVenue(checks.pending, venue) ELSE checks} :
                     last' = [action |-> "resume", ctx |-> ctx, args |-> args,
                              now |-> clock, result |-> out.result, calls |-> out.calls,
                              verified |-> verified,
                              pending |-> out.pending,
                              market |-> NoMarket, resolved |-> Unresolved("")]
  /\ UNCHANGED <<clock, env, pluginConfig, held>>

\* One call execute(_, {action, ...}) of an action other than place_order and
\* resume.
ToolCall(actions, ctxs, argss, venues) ==
  /\ last = NoCall
  /\ \E privateKey \in {resolvePrivateKey(env)} :
       \E action \in actions, ctx \in ctxs, args \in argss, venue \in venues :
         \E out \in {ToolOutcome(action, privateKey, ctx, args, venue)} :
           last' = [NoCall EXCEPT !.action = action, !.ctx = ctx, !.args = args,
                                  !.now = clock, !.result = out.result,
                                  !.calls = out.calls]
  /\ UNCHANGED <<clock, env, pluginConfig, held>>

PlaceOrder == PlaceOrderCall(Contexts, PlaceOrderArgs) /\ UNCHANGED ledger

ReadOnly == ToolCall(ReadOnlyActions, ToolContexts, ToolArgs, ServiceScenarios) /\ UNCHANGED ledger

Cancel == ToolCall(CancelActions, ToolContexts, CancelArgs, ServiceScenarios) /\ UNCHANGED ledger

Resume == ResumeCall(ResumeTokens, Contexts, ApproveArgs, VenueScenarios) /\ UNCHANGED ledger

\* The caller takes the result of the call.
Return ==
  /\ last # NoCall
  /\ last' = NoCall
  /\ UNCHANGED <<clock, env, pluginConfig, held, ledger>>

\* Time passes.
AdvanceClock ==
  /\ last = NoCall
  /\ \E t \in Times : t > clock /\ clock' = t
  /\ UNCHANGED <<env, pluginConfig, held, last, ledger>>

\* The administrator changes the plugin configuration (the tool is created
\* again: createPolymarketTool reads api.pluginConfig).
SetPluginConfig ==
  /\ last = NoCall
  /\ \E c \in PluginConfigs : c # pluginConfig /\ pluginConfig' = c
  /\ UNCHANGED <<clock, env, held, last, ledger>>

\* The private key in the environment is set, rotated or removed.
SetEnvironment ==
  /\ last = NoCall
  /\ \E e \in Environments : e # env /\ env' = e
  /\ UNCHANGED <<clock, pluginConfig, held, last, ledger>>

Next ==
  \/ PlaceOrder \/ Resume \/ ReadOnly \/ Cancel \/ Return
  \/ AdvanceClock \/ SetPluginConfig \/ SetEnvironment

Spec == Init /\ [][Next]_vars

(***************************************************************************)
(* The replay scenario: one session stages an order and resumes the token  *)
(* it holds again and again, under a fixed configuration and private key.  *)
(* ledger keeps the terminal outcomes of those resumes: "rejected"         *)
(* (cancelled), "submitted" (createAndPostOrder returned) and "failed"     *)
(* (createAndPostOrder threw).                                             *)
(***************************************************************************)
MaxLedger == 2

ReplayContexts == {[sandboxed |-> FALSE, sessionKey |-> "s1"]}

ReplayArgs == {[NoArgs EXCEPT !.tokenId = "T1", !.side = "buy", !.price = 610, !.size = 10]}

ReplayApproves == {a \in ApproveArgs : a.approveType = "boolean"}

ReplayVenues == {NoVenue, [NoVenue EXCEPT !.post = "throws"]}

TerminalOutcome(call) ==
  IF call.result.status = "cancelled" THEN "rejected"
  ELSE IF \E i \in 1..Len(call.calls) : call.calls[i].op = "createAndPostOrder"
    THEN IF call.result.ok THEN "submitted" ELSE "failed"
  ELSE ""

InitReplay ==
  /\ clock = 0
  /\ env = [primary |-> <<32>>, POLYMARKET_PRIVATE_KEY |-> <<>>, PRIVATE_KEY |-> <<49, 49>>]
  /\ pluginConfig = [tradeEnabled |-> "true", maxNotionalUsd |-> 100,
                     allowedMarketSlugs |-> <<>>]
  /\ held = NoHeld
  /\ last = NoCall
  /\ ledger = <<>>

ReplayPlaceOrder ==
  /\ PlaceOrderCall(ReplayContexts, ReplayArgs)
  /\ ledger' = IF held'.resumeToken = held.resumeToken THEN ledger ELSE <<>>

ReplayResume ==
  /\ held # NoHeld
  /\ Len(ledger) < MaxLedger
  /\ ResumeCall({held.resumeToken}, ReplayContexts, ReplayApproves, ReplayVenues)
  /\ ledger' = IF TerminalOutcome(last') = "" THEN ledger
               ELSE Append(ledger, TerminalOutcome(last'))

NextReplay == ReplayPlaceOrder \/ ReplayResume \/ Return \/ AdvanceClock

SpecReplay == InitReplay /\ [][NextReplay]_vars

(***************************************************************************)
(* The codec scenario: encodeResumeToken applied to a pending order under  *)
(* the private key in force, then, with the private key possibly rotated   *)
(* in between, decodeResumeToken and resume applied to the token.          *)
(***************************************************************************)
\* Private keys: 0x11, 11 (resolved to 0x11), 0x12, 0x21 and 0x1.
CodecEnvironments ==
  {[primary |-> k, POLYMARKET_PRIVATE_KEY |-> <<>>, PRIVATE_KEY |-> <<>>] :
     k \in {<<48, 120, 49, 49>>, <<49, 49>>, <<48, 120, 49, 50>>, <<48, 120, 50, 49>>,
            <<48, 120, 49>>}}

\* Pending orders as place_order builds them (lines 955-971), with and
\* without the optional members.
CodecDescriptors ==
  {[action |-> "place_order", createdAtMs |-> t, expiresAtMs |-> t + ApprovalTtlMs,
    sessionKey |-> k, market |-> [slug |-> m],
    tokenId |-> IF m = "m1" THEN "T2" ELSE "X9",
    side |-> IF o = Undefined THEN "buy" ELSE "sell",
    outcome |-> o, price |-> ps[1], size |-> ps[2],
    approxNotionalUsd |-> approxNotionalUsd(ps[1], ps[2])] :
     t \in {0, ApprovalTtlMs}, k \in {Undefined, "", "s1"}, m \in {Undefined, "", "m1"},
     o \in {Undefined, " YES "}, ps \in {<<1, 1>>, <<610, 10>>, <<999, 200>>}}

InitCodec ==
  /\ clock = 0
  /\ env \in CodecEnvironments
  /\ pluginConfig = [tradeEnabled |-> "true", maxNotionalUsd |-> 100,
                     allowedMarketSlugs |-> <<>>]
  /\ held = NoHeld
  /\ last = NoCall
  /\ ledger = <<>>

\* encodeResumeToken(order, privateKey), as at line 973.
EncodeCall ==
  /\ last = NoCall /\ held = NoHeld
  /\ \E privateKey \in {resolvePrivateKey(env)}, order \in CodecDescriptors :
       \E token \in {encodeResumeToken(order, privateKey)} :
         /\ last' = [NoCall EXCEPT !.action = "encodeResumeToken", !.now = clock,
                                   !.result = [OkResult EXCEPT !.resumeToken = token,
                                                               !.order = order]]
         /\ held' = [resumeToken |-> token, order |-> order]
         /\ ledger' = <<privateKey>>
  /\ UNCHANGED <<clock, env, pluginConfig>>

\* decodeResumeToken(token, privateKey), as at line 1012, of the token held.
DecodeCall ==
  /\ last = NoCall /\ held # NoHeld
  /\ \E privateKey \in {resolvePrivateKey(env)} :
       \E decoded \in {decodeResumeToken(held.resumeToken, privateKey)} :
         last' = [NoCall EXCEPT !.action = "decodeResumeToken", !.now = clock,
                                !.args = [NoArgs EXCEPT !.token = held.resumeToken],
                                !.result = [NoResult EXCEPT !.ok = decoded.ok,
                                                            !.message = decoded.error],
                                !.verified = TokenVerifies(held.resumeToken, privateKey),
                                !.pending = decoded.pending]
  /\ UNCHANGED <<clock, env, pluginConfig, held, ledger>>

\* A resume of the token held, from a context without a session.
CodecResume ==
  /\ held # NoHeld
  /\ ResumeCall({held.resumeToken}, {NoCtx}, ReplayApproves, {NoVenue})
  /\ UNCHANGED ledger

\* The private key in the environment is replaced.
RotateKey ==
  /\ last = NoCall
  /\ \E e \in CodecEnvironments : e # env /\ env' = e
  /\ UNCHANGED <<clock, pluginConfig, held, last, ledger>>

NextCodec == EncodeCall \/ DecodeCall \/ CodecResume \/ RotateKey \/ Return

SpecCodec == InitCodec /\ [][NextCodec]_vars

(***************************************************************************)
(* The resolver scenario: resolveOutcomeToken applied to a market of the   *)
(* Gamma API and the outcome a caller gives.                               *)
(***************************************************************************)
\* market.outcomes and market.clobTokenIds as JSON arrays of strings: no
\* labels, as many labels as tokens (in either order, with labels that
\* differ in case and blanks only), fewer and more labels than tokens; no
\* token, an empty string only, one token, two, and an array with an empty
\* string in it.
ResolverMarkets ==
  {[found |-> TRUE, id |-> "1", slug |-> "m1", outcomes |-> os, clobTokenIds |-> ts] :
     os \in {<<>>, <<"No">>, <<"Yes", "No">>, <<"No", "Yes">>, <<"Yes", " YES ">>,
             <<"No", "Yes", "maybe">>},
     ts \in {<<>>, <<"">>, <<"T1">>, <<"T1", "T2">>, <<"T1", "", "X9">>}}

\* params.outcome: absent (""), blank, and labels in several spellings.
CallerOutcomes == {"", " ", "yes", " YES ", "Yes", "no", "No", "maybe"}

InitResolver ==
  /\ clock = 0
  /\ env = [primary |-> <<>>, POLYMARKET_PRIVATE_KEY |-> <<>>, PRIVATE_KEY |-> <<>>]
  /\ pluginConfig = [tradeEnabled |-> "unset", maxNotionalUsd |-> NoNumber,
                     allowedMarketSlugs |-> <<>>]
  /\ held = NoHeld
  /\ last = NoCall
  /\ ledger = <<>>

\* resolveOutcomeToken({market, outcome}), as at lines 655, 719 and 921.
ResolveCall ==
  /\ last = NoCall
  /\ \E market \in ResolverMarkets, outcome \in CallerOutcomes :
       last' = [NoCall EXCEPT !.action = "resolveOutcomeToken",
                              !.args = [NoArgs EXCEPT !.outcome = outcome],
                              !.market = market,
                              !.resolved = resolveOutcomeToken(market, outcome)]
  /\ UNCHANGED <<clock, env, pluginConfig, held, ledger>>

NextResolver == ResolveCall \/ Return

SpecResolver == InitResolver /\ [][NextResolver]_vars

(***************************************************************************)
(* The instances scenario.  The plugin creates one tool per context        *)
(* (register: api.registerTool((ctx) => createPolymarketTool({api, ctx}))), *)
(* so the call that stages an order and the calls that resume its token    *)
(* are served by tools created separately, under one configuration and one *)
(* private key.  ledger keeps the resumes served so far, oldest first:     *)
(* each with the call as it returned and the venue scenario it met.        *)
(***************************************************************************)
MaxCalls == 2

InstanceContexts == {NoCtx, [sandboxed |-> FALSE, sessionKey |-> "s1"]}

InitInstances ==
  /\ clock = 0
  /\ env = [primary |-> <<32>>, POLYMARKET_PRIVATE_KEY |-> <<>>, PRIVATE_KEY |-> <<49, 49>>]
  /\ pluginConfig = [tradeEnabled |-> "true", maxNotionalUsd |-> 100,
                     allowedMarketSlugs |-> <<>>]
  /\ held = NoHeld
  /\ last = NoCall
  /\ ledger = <<>>

\* The order is staged once, by the tool of one context.
InstancePlaceOrder ==
  /\ held = NoHeld
  /\ PlaceOrderCall(InstanceContexts, ReplayArgs)
  /\ UNCHANGED ledger

\* The token is resumed by the tool of any context.
InstanceResume ==
  /\ held # NoHeld
  /\ Len(ledger) < MaxCalls
  /\ \E venue \in ReplayVenues :
       /\ ResumeCall({held.resumeToken}, InstanceContexts, ReplayApproves, {venue})
       /\ ledger' = Append(ledger, [call |-> last', venue |-> venue])

NextInstances == InstancePlaceOrder \/ InstanceResume \/ Return \/ AdvanceClock

SpecInstances == InitInstances /\ [][NextInstances]_vars

(***************************************************************************)
(* The signal scenario.  execute is given an AbortSignal, which the host   *)
(* fires to cancel the call.  ledger holds, for the call that has just     *)
(* returned, the external request that was in flight when the signal       *)
(* fired, counted from 1 in the order the call makes them (place_order:    *)
(* the market fetch; resume: createOrDeriveApiKey, getTickSize, getNegRisk, *)
(* createAndPostOrder), or 0 when the signal did not fire.                 *)
(***************************************************************************)
SignalArgs ==
  {[NoArgs EXCEPT !.tokenId = "T1", !.side = "buy", !.price = 610, !.size = 10],
   [NoArgs EXCEPT !.marketSlug = "m1", !.outcome = " YES ", !.side = "sell",
                  !.price = 615, !.size = 10]}

\* place_order when the signal fires while the fetch of line 894 is in
\* flight: the signal is handed to fetch (lines 357-361), which rejects.
PlaceOrderAborted(config, privateKey, ctx, args, now) ==
  IF ~config.tradeEnabled THEN Failure("trading_disabled")
  ELSE IF ctx.sandboxed THEN Failure("sandboxed")
  ELSE IF privateKey = NoKey THEN Failure("missing_private_key")
  ELSE IF TrimStr(args.marketSlug) # "" \/ TrimStr(args.marketId) # ""
    THEN Caught("This operation was aborted")
  ELSE PlaceOrderResult(config, privateKey, ctx, args, now)

InitSignal ==
  /\ clock = 0
  /\ env = [primary |-> <<32>>, POLYMARKET_PRIVATE_KEY |-> <<>>, PRIVATE_KEY |-> <<49, 49>>]
  /\ pluginConfig = [tradeEnabled |-> "true", maxNotionalUsd |-> 100,
                     allowedMarketSlugs |-> <<>>]
  /\ held = NoHeld
  /\ last = NoCall
  /\ ledger = <<0>>

\* A place_order, cancelled or not while its market is fetched.
SignalPlaceOrder ==
  /\ last = NoCall
  /\ \E ctx \in InstanceContexts, args \in SignalArgs, fired \in {0, 1} :
       \E config \in {resolvePluginConfig(pluginConfig)},
          privateKey \in {resolvePrivateKey(env)} :
         \E result \in {IF fired = 1
                          THEN PlaceOrderAborted(config, privateKey, ctx, args, clock)
                          ELSE PlaceOrderResult(config, privateKey, ctx, args, clock)} :
           /\ last' = [NoCall EXCEPT !.action = "place_order", !.ctx = ctx, !.args = args,
                                     !.now = clock, !.result = result]
           /\ held' = IF result.ok
                        THEN [resumeToken |-> result.resumeToken, order |-> result.order]
                        ELSE held
           /\ ledger' = <<fired>>
  /\ UNCHANGED <<clock, env, pluginConfig>>

\* A resume of the token held, cancelled or not while one of its requests is
\* in flight: resolveClobClient takes the signal and does not use it (lines
\* 443-475), and the requests of lines 1051-1076 are made without it.
SignalResume ==
  /\ held # NoHeld
  /\ ResumeCall({held.resumeToken}, InstanceContexts, ReplayApproves,
                {NoVenue, [NoVenue EXCEPT !.tickSize = "0.01"],
                 [NoVenue EXCEPT !.post = "throws"]})
  /\ \E fired \in 0..4 : ledger' = <<fired>>

NextSignal == SignalPlaceOrder \/ SignalResume \/ Return \/ AdvanceClock

SpecSignal == InitSignal /\ [][NextSignal]_vars

(***************************************************************************)
(* The race scenario: resumes of one token that run concurrently.  A       *)
(* resume runs without interruption from its start to its first await      *)
(* (line 1050), that is through all its checks, and is then suspended at   *)
(* each request to the CLOB client, where the requests of the other        *)
(* resumes may come in between.  ledger holds the resumes started, each    *)
(* with the call as it is going to return and the number of its requests   *)
(* made so far; last is the resume started last, until the caller goes on. *)
(***************************************************************************)
MaxRacers == 2

RaceVenues == {NoVenue, [NoVenue EXCEPT !.post = "throws"]}

InitRace ==
  /\ clock = 0
  /\ env = [primary |-> <<32>>, POLYMARKET_PRIVATE_KEY |-> <<>>, PRIVATE_KEY |-> <<49, 49>>]
  /\ pluginConfig = [tradeEnabled |-> "true", maxNotionalUsd |-> 100,
                     allowedMarketSlugs |-> <<>>]
  /\ held = NoHeld
  /\ last = NoCall
  /\ ledger = <<>>

RacePlaceOrder ==
  /\ held = NoHeld
  /\ PlaceOrderCall(ReplayContexts, ReplayArgs)
  /\ UNCHANGED ledger

\* A resume of the token held starts: lines 989-1048.
RaceStart ==
  /\ held # NoHeld
  /\ Len(ledger) < MaxRacers
  /\ ResumeCall({held.resumeToken}, ReplayContexts, ReplayApproves, RaceVenues)
  /\ ledger' = Append(ledger, [call |-> last', made |-> 0])

\* A resume that has started makes its next request: lines 1050-1076.
RaceStep ==
  /\ \E p \in 1..Len(ledger) :
       /\ ledger[p].made < Len(ledger[p].call.calls)
       /\ ledger' = [ledger EXCEPT ![p].made = @ + 1]
  /\ UNCHANGED <<clock, env, pluginConfig, held, last>>

NextRace == RacePlaceOrder \/ RaceStart \/ RaceStep \/ Return \/ AdvanceClock

SpecRace == InitRace /\ [][NextRace]_vars

(***************************************************************************)
(* The payload scenario: decodeResumeToken applied to tokens that carry    *)
(* the signature signToken gives for their payload under the private key   *)
(* in force, whatever the payload is (tokens of another version of the     *)
(* tool, or of anyone who has the private key), with the private key       *)
(* possibly rotated before the token is decoded.  ledger holds the private *)
(* key the token was signed under.                                         *)
(***************************************************************************)
\* Payload texts: pending orders with members missing ({} among them), a
\* pending order with all its members, an unfinished object, a number, a
\* string and the empty text.
SignedPayloads ==
  {JsonStringify(d) :
     d \in {EmptyPending,
            [EmptyPending EXCEPT !.action = "place_order"],
            [EmptyPending EXCEPT !.action = "place_order", !.tokenId = "T1",
                                 !.side = "buy", !.size = 10, !.expiresAtMs = ApprovalTtlMs],
            [EmptyPending EXCEPT !.tokenId = "T1", !.side = "buy", !.price = 610,
                                 !.size = 10, !.expiresAtMs = ApprovalTtlMs],
            [EmptyPending EXCEPT !.action = "place_order", !.tokenId = "T1",
                                 !.side = "buy", !.price = 610, !.size = 10,
                                 !.createdAtMs = 0, !.expiresAtMs = ApprovalTtlMs,
                                 !.approxNotionalUsd = approxNotionalUsd(610, 10)]}}
  \cup {<<123>>, <<123, 97, 58>>, <<49>>, <<34, 84, 49, 34>>, <<>>}

InitPayload ==
  /\ clock = 0
  /\ env \in CodecEnvironments
  /\ pluginConfig = [tradeEnabled |-> "true", maxNotionalUsd |-> 100,
                     allowedMarketSlugs |-> <<>>]
  /\ held = NoHeld
  /\ last = NoCall
  /\ ledger = <<>>

\* A token is made for a payload text as lines 285-287 make it: the
\* base64url of the text, a dot, and signToken of the text.
SignCall ==
  /\ last = NoCall /\ held = NoHeld
  /\ \E privateKey \in {resolvePrivateKey(env)}, payloadJson \in SignedPayloads :
       \E token \in {Base64UrlEncode(payloadJson) \o <<Dot>>
                        \o signToken(payloadJson, createTokenKey(privateKey))} :
         /\ last' = [NoCall EXCEPT !.action = "signToken", !.now = clock,
                                   !.result = [OkResult EXCEPT !.resumeToken = token]]
         /\ held' = [resumeToken |-> token, order |-> EmptyPending]
         /\ ledger' = <<privateKey>>
  /\ UNCHANGED <<clock, env, pluginConfig>>

NextPayload == SignCall \/ DecodeCall \/ RotateKey \/ Return

SpecPayload == InitPayload /\ [][NextPayload]_vars

(***************************************************************************)
(* The tick scenario: isMultipleOfTick applied to a value and a tick size, *)
(* and an order staged at one of two prices resumed against venues that    *)
(* differ in the tick size they report.  ledger holds the last application *)
(* of isMultipleOfTick: its two arguments and what it returned.            *)
(***************************************************************************)
\* Values and tick sizes in units of 1/PriceScale: 615 is 0.615, 10 is 0.01.
TickValues == {-20, 0, 1, 5, 10, 15, 100, 250, 500, 610, 615, 990, 1000}

TickSizeNums == {NaN, -10, 0, 1, 3, 10, 100, 250}

TickArgs ==
  {[NoArgs EXCEPT !.tokenId = "T1", !.side = "buy", !.price = p, !.size = 10] :
     p \in {610, 615}}

TickVenues ==
  {[NoVenue EXCEPT !.tickSize = t] : t \in {"0.1", "0.01", "0.001", "0", "-0.01", "abc"}}

InitTick ==
  /\ clock = 0
  /\ env = [primary |-> <<32>>, POLYMARKET_PRIVATE_KEY |-> <<>>, PRIVATE_KEY |-> <<49, 49>>]
  /\ pluginConfig = [tradeEnabled |-> "true", maxNotionalUsd |-> 100,
                     allowedMarketSlugs |-> <<>>]
  /\ held = NoHeld
  /\ last = NoCall
  /\ ledger = <<>>

TickCheck ==
  /\ last = NoCall
  /\ \E value \in TickValues, tickSize \in TickSizeNums :
       ledger' = <<[value |-> value, tickSize |-> tickSize,
                    aligned |-> isMultipleOfTick(value, tickSize)]>>
  /\ UNCHANGED <<clock, env, pluginConfig, held, last>>

TickPlaceOrder == PlaceOrderCall(ReplayContexts, TickArgs) /\ UNCHANGED ledger

TickResume ==
  /\ held # NoHeld
  /\ ResumeCall({held.resumeToken}, ReplayContexts, ReplayApproves, TickVenues)
  /\ UNCHANGED ledger

NextTick == TickCheck \/ TickPlaceOrder \/ TickResume \/ Return

SpecTick == InitTick /\ [][NextTick]_vars

(***************************************************************************)
(* Properties.  They read the call that has just returned (last), the      *)
(* configuration and the environment it ran under (unchanged until the     *)
(* caller takes the result) and, in the replay scenario, the ledger.       *)
(***************************************************************************)
Submits(call) == \E i \in 1..Len(call.calls) : call.calls[i].op = "createAndPostOrder"

\* A resume that gets as far as decoding its token (line 1012).
ReachesDecode(call) ==
  /\ call.action = "resume"
  /\ ~call.ctx.sandboxed
  /\ call.args.token # <<>>
  /\ call.args.approveType = "boolean"
  /\ resolvePrivateKey(env) # NoKey

\* price is a whole multiple of the tick size the venue reported, a tick
\* size that is no finite positive number being no constraint.
AlignedTo(price, tickSizeStr) ==
  LET tick == ParseTickSize(tickSizeStr)
  IN (tick # NaN /\ tick > 0) => price % tick = 0

\* A token with one character replaced by another one.
SingleByteChanges(token) ==
  UNION {{[token EXCEPT ![i] = (token[i] + 1) % (Dot + 1)],
          [token EXCEPT ![i] = (token[i] + 8) % (Dot + 1)]} : i \in 1..Len(token)}

\* C1: no order is submitted from a single call: place_order calls the CLOB
\* client not at all, and createAndPostOrder is called only by a resume with
\* approve = true whose token passes the signature verification under the
\* private key resolved for that call.
C1_SubmissionOnlyInApprovedResume ==
  /\ last.action = "place_order" => last.calls = <<>>
  /\ Submits(last) =>
       /\ last.action = "resume"
       /\ last.args.approveType = "boolean" /\ last.args.approve
       /\ last.verified

C1_Witness ==
  /\ Submits(last) /\ last.result.ok /\ last.result.orderID = "0xorder"
  /\ last.args.token = held.resumeToken

\* C2: for every token place_order has just issued and every change of one
\* character of it, in the payload or in the signature, decodeResumeToken
\* under the same private key throws and returns no descriptor.
C2_EverySingleByteChangeRejected ==
  (last.action = "place_order" /\ last.result.ok) =>
    \A t \in SingleByteChanges(last.result.resumeToken) :
      ~decodeResumeToken(t, resolvePrivateKey(env)).ok

\* C3: a resume whose token fails the verification returns an error result
\* (ok = false; the caught Error once the token is decoded), for approve =
\* true and approve = false alike: never cancelled, never expired, never
\* session_mismatch, and no call to the CLOB client.
C3_UnverifiedTokenIsAnError ==
  (last.action = "resume" /\ ~last.verified) =>
    /\ ~last.result.ok
    /\ last.result.status # "cancelled"
    /\ last.result.errorType \notin {"expired", "session_mismatch"}
    /\ last.calls = <<>>
    /\ ReachesDecode(last) => last.result.errorType = "error"

C3_Witness ==
  /\ ReachesDecode(last) /\ ~last.verified /\ ~last.args.approve
  /\ last.result.errorType = "error"
  /\ last.result.message = "Invalid token signature"

\* C4: for a token that verifies, presented from a context that is not
\* sandboxed with a private key present, resume gives expired exactly when
\* its clock is strictly greater than the descriptor's expiresAtMs, for both
\* approve values (at now = expiresAtMs the token is still valid), and an
\* expired resume calls the CLOB client not at all.
C4_ExpiredExactlyAfterExpiresAt ==
  (ReachesDecode(last) /\ last.verified) =>
    /\ (last.result.errorType = "expired") <=> (last.now > last.pending.expiresAtMs)
    /\ last.result.errorType = "expired" => last.calls = <<>>

C4_Witness ==
  /\ ReachesDecode(last) /\ last.verified /\ last.args.approve
  /\ last.now = last.pending.expiresAtMs + 1
  /\ last.result.errorType = "expired"

\* C5: a resume with approve = false of a token that verifies, has not
\* expired and is presented from the session it is bound to ends cancelled
\* and calls the CLOB client not at all, whatever tradeEnabled and the
\* allowlist are.
C5_DeclineCancelsWithoutCalls ==
  (/\ ReachesDecode(last) /\ last.verified /\ ~last.args.approve
   /\ last.now <= last.pending.expiresAtMs
   /\ last.pending.sessionKey = last.ctx.sessionKey) =>
    /\ last.result.ok /\ last.result.status = "cancelled"
    /\ last.calls = <<>>

C5_Witness ==
  /\ ReachesDecode(last) /\ last.verified /\ ~last.args.approve
  /\ last.pending.sessionKey = last.ctx.sessionKey
  /\ last.result.status = "cancelled"
  /\ ~resolvePluginConfig(pluginConfig).tradeEnabled

C7_SessionBindingEnforced ==
  (/\ ReachesDecode(last) /\ last.verified
   /\ last.now <= last.pending.expiresAtMs
   /\ last.pending.sessionKey \notin {Undefined, ""}
   /\ last.ctx.sessionKey # last.pending.sessionKey) =>
    /\ last.result.errorType = "session_mismatch"
    /\ ~Submits(last)

\* C8: a resume from a session other than the one the token is bound to
\* gets the same session_mismatch result whether the token is expired,
\* trading is disabled or the market is no longer allowed.
C8_MismatchedSessionLearnsNothing ==
  (/\ ReachesDecode(last) /\ last.verified
   /\ last.pending.sessionKey \notin {Undefined, ""}
   /\ last.ctx.sessionKey \notin {Undefined, ""}
   /\ last.ctx.sessionKey # last.pending.sessionKey) =>
    last.result.errorType = "session_mismatch"

\* C9: every order a resume submits passes, against the configuration in
\* force and the tick size fetched at that resume, the checks that can
\* change after staging: trading enabled, market allowed, price * size
\* within the positive notional limit, price aligned to the tick size.
C9_SubmittedOrderPassesCurrentChecks ==
  Submits(last) =>
    LET config == resolvePluginConfig(pluginConfig)
        post   == last.calls[Len(last.calls)]
    IN /\ config.tradeEnabled
       /\ Len(config.allowedMarketSlugs) > 0 =>
            isAllowedMarket(config, last.pending.market.slug)
       /\ config.maxNotionalUsd > 0 =>
            post.price * post.size <= config.maxNotionalUsd * PriceScale
       /\ AlignedTo(post.price, post.tickSize)

\* C10: createAndPostOrder is called only after getTickSize has been called
\* in the same resume for the descriptor's token and the descriptor's price
\* is a whole multiple of the tick size it returned (a tick size that is no
\* finite positive number is no constraint); when the price is not, resume
\* ends in invalid_tick straight after getTickSize, with neither getNegRisk
\* nor createAndPostOrder called.
C10_TickRevalidatedBeforeSubmission ==
  last.action = "resume" =>
    /\ \A i \in 1..Len(last.calls) :
         last.calls[i].op = "createAndPostOrder" =>
           \E j \in 1..(i - 1) :
             /\ last.calls[j].op = "getTickSize"
             /\ last.calls[j].tokenID = last.pending.tokenId
             /\ last.calls[i].tickSize = last.calls[j].returned
             /\ last.calls[i].price = last.pending.price
             /\ AlignedTo(last.pending.price, last.calls[j].returned)
    /\ \A j \in 1..Len(last.calls) :
         (/\ last.calls[j].op = "getTickSize"
          /\ last.calls[j].returned # "throws"
          /\ ~AlignedTo(last.pending.price, last.calls[j].returned)) =>
           /\ last.result.errorType = "invalid_tick"
           /\ j = Len(last.calls)
    /\ last.result.errorType = "invalid_tick" =>
         /\ Len(last.calls) = 2
         /\ last.calls[2].op = "getTickSize"
         /\ ~AlignedTo(last.pending.price, last.calls[2].returned)

C10_Witness ==
  /\ last.action = "resume" /\ last.args.approve
  /\ last.result.errorType = "invalid_tick"
  /\ last.pending.price = 615
  /\ last.calls[Len(last.calls)].returned = "0.01"

\* A resume with approve = true that gets past the token: the token verifies,
\* has not expired and is not bound to another session than the caller's.
ApprovedWithValidToken(call) ==
  /\ ReachesDecode(call) /\ call.verified /\ call.args.approve
  /\ call.now <= call.pending.expiresAtMs
  /\ \/ call.pending.sessionKey \in {Undefined, ""}
     \/ call.ctx.sessionKey \in {Undefined, ""}
     \/ call.pending.sessionKey = call.ctx.sessionKey

\* C11: while the configuration does not set tradeEnabled to true, every
\* place_order returns trading_disabled and emits no token, whatever its
\* context and parameters; no resume calls the CLOB client; and a resume with
\* approve = true of a valid token (staged while trading was enabled) returns
\* trading_disabled.
C11_NothingStagedOrExecutedWhileDisabled ==
  pluginConfig.tradeEnabled # "true" =>
    /\ last.action = "place_order" =>
         /\ ~last.result.ok /\ last.result.errorType = "trading_disabled"
         /\ last.result.resumeToken = <<>>
         /\ last.calls = <<>>
    /\ last.action = "resume" => last.calls = <<>>
    /\ ApprovedWithValidToken(last) =>
         ~last.result.ok /\ last.result.errorType = "trading_disabled"

C11_Witness ==
  /\ pluginConfig.tradeEnabled # "true"
  /\ ApprovedWithValidToken(last)
  /\ held # NoHeld /\ last.args.token = held.resumeToken
  /\ last.result.errorType = "trading_disabled"

\* The allowlist in force: the non-blank entries of
\* pluginConfig.allowedMarketSlugs, trimmed.
AllowlistInForce ==
  {TrimStr(pluginConfig.allowedMarketSlugs[i]) : i \in 1..Len(pluginConfig.allowedMarketSlugs)}
    \ {""}

\* C12: a resume submits only if the allowlist in force at that resume is
\* empty or holds the market slug of the descriptor; and a resume with
\* approve = true of a valid place_order token, with trading enabled, whose
\* descriptor has no market slug or a slug that is not in the non-empty
\* allowlist in force ends in market_not_allowed without a call to the CLOB
\* client.
C12_AllowlistRecheckedAtResume ==
  /\ Submits(last) =>
       (AllowlistInForce = {} \/ last.pending.market.slug \in AllowlistInForce)
  /\ (/\ ApprovedWithValidToken(last)
      /\ pluginConfig.tradeEnabled = "true"
      /\ last.pending.action = "place_order"
      /\ AllowlistInForce # {}
      /\ last.pending.market.slug \notin AllowlistInForce) =>
       /\ last.result.errorType = "market_not_allowed"
       /\ last.calls = <<>>

\* A market that was allowed at staging and is not any more.
C12_Witness ==
  /\ ApprovedWithValidToken(last)
  /\ last.args.token = held.resumeToken
  /\ last.pending.market.slug = "m2" /\ AllowlistInForce = {"m1"}
  /\ last.result.errorType = "market_not_allowed"

\* A token staged without a market slug, resumed under an allowlist.
C12_WitnessNoSlug ==
  /\ ApprovedWithValidToken(last)
  /\ last.pending.market.slug \in {Undefined, ""} /\ AllowlistInForce # {}
  /\ last.result.errorType = "market_not_allowed"

\* A place_order that gets past the trading, sandbox and private-key checks
\* (lines 851-882).
ReachesMarketCheck(call) ==
  /\ call.action = "place_order"
  /\ pluginConfig.tradeEnabled = "true"
  /\ ~call.ctx.sandboxed
  /\ resolvePrivateKey(env) # NoKey

NamesMarket(call) == TrimStr(call.args.marketSlug) # "" \/ TrimStr(call.args.marketId) # ""

\* The market the Gamma API gives for the request of the call.
FetchedMarket(call) ==
  resolveGammaMarket(TrimStr(call.args.marketId), TrimStr(call.args.marketSlug))

\* C13: under a non-empty allowlist place_order emits a token only for a
\* request that names a market (by slug or by id) whose fetched slug is an
\* entry of the allowlist; once past the trading, sandbox and key checks, a
\* request that names no market fails with market_required and a request for
\* a fetched market outside the allowlist fails with market_not_allowed, both
\* without a token.  Under an empty allowlist no request fails with either.
C13_AllowlistEnforcedAtStaging ==
  last.action = "place_order" =>
    /\ (AllowlistInForce # {} /\ last.result.ok) =>
         /\ NamesMarket(last)
         /\ FetchedMarket(last).found
         /\ FetchedMarket(last).slug \in AllowlistInForce
    /\ (AllowlistInForce # {} /\ ReachesMarketCheck(last) /\ ~NamesMarket(last)) =>
         /\ last.result.errorType = "market_required"
         /\ last.result.resumeToken = <<>>
    /\ (/\ AllowlistInForce # {} /\ ReachesMarketCheck(last) /\ NamesMarket(last)
        /\ FetchedMarket(last).found
        /\ FetchedMarket(last).slug \notin AllowlistInForce) =>
         /\ last.result.errorType = "market_not_allowed"
         /\ last.result.resumeToken = <<>>
    /\ AllowlistInForce = {} =>
         last.result.errorType \notin {"market_required", "market_not_allowed"}

\* A token for a market named by its id, under an allowlist holding its slug.
C13_Witness ==
  /\ last.action = "place_order" /\ last.result.ok
  /\ last.result.resumeToken # <<>>
  /\ AllowlistInForce = {"m2"}
  /\ last.args.marketId = "2" /\ last.args.marketSlug = ""

\* The notional limit in force, in USD: raw.maxNotionalUsd, 25 when unset.
NotionalLimitInForce ==
  IF pluginConfig.maxNotionalUsd = NoNumber THEN DefaultMaxNotionalUsd
  ELSE pluginConfig.maxNotionalUsd

\* A place_order that meets every requirement other than the notional
\* limit: past the trading, sandbox and key checks, naming an allowed market
\* or, without an allowlist, a token id; token resolvable; side buy or sell;
\* 0 < price < 1; size > 0.
MeetsOtherRequirements(call) ==
  /\ ReachesMarketCheck(call)
  /\ IF NamesMarket(call)
       THEN /\ FetchedMarket(call).found
            /\ AllowlistInForce = {} \/ FetchedMarket(call).slug \in AllowlistInForce
            /\ \/ TrimStr(call.args.tokenId) # ""
               \/ resolveOutcomeToken(FetchedMarket(call), TrimStr(call.args.outcome)).ok
       ELSE AllowlistInForce = {} /\ TrimStr(call.args.tokenId) # ""
  /\ LowerStr(TrimStr(call.args.side)) \in {"buy", "sell"}
  /\ call.args.price > 0 /\ call.args.price < PriceScale
  /\ call.args.size > 0

\* C14: a place_order that meets every other requirement fails with
\* notional_limit, without a token, exactly when the limit in force is
\* positive and price * size is greater than it, and otherwise emits a token:
\* price * size equal to the limit is accepted, and under a zero or negative
\* limit nothing is refused for its notional.  No other place_order returns
\* notional_limit.
C14_NotionalGateAtStaging ==
  last.action = "place_order" =>
    LET exceeds == /\ NotionalLimitInForce > 0
                   /\ last.args.price * last.args.size > NotionalLimitInForce * PriceScale
    IN /\ MeetsOtherRequirements(last) =>
            IF exceeds
              THEN /\ ~last.result.ok /\ last.result.errorType = "notional_limit"
                   /\ last.result.resumeToken = <<>>
              ELSE last.result.ok /\ last.result.resumeToken # <<>>
       /\ last.result.errorType = "notional_limit" => exceeds
       /\ NotionalLimitInForce <= 0 => last.result.errorType # "notional_limit"

\* price * size equal to a positive limit.
C14_Witness ==
  /\ last.action = "place_order" /\ last.result.ok
  /\ NotionalLimitInForce > 0
  /\ last.args.price * last.args.size = NotionalLimitInForce * PriceScale

\* A notional above the default limit, accepted under a negative limit.
C14_WitnessDisabled ==
  /\ last.action = "place_order" /\ last.result.ok
  /\ NotionalLimitInForce < 0
  /\ last.args.price * last.args.size > DefaultMaxNotionalUsd * PriceScale

\* A notional above a positive limit.
C14_WitnessExceeded ==
  /\ last.action = "place_order" /\ last.result.errorType = "notional_limit"
  /\ MeetsOtherRequirements(last)

MutatingActions == {"place_order", "resume", "cancel_order", "cancel_all"}

\* The call neither emits nor decodes a token and neither builds nor calls
\* the CLOB client.
Inert(call) ==
  /\ ~call.result.ok
  /\ call.result.resumeToken = <<>>
  /\ call.pending = EmptyPending
  /\ call.calls = <<>>

\* The credential source has no secret: the three variables are blank.
NoSecret ==
  Trim(env.primary) = <<>> /\ Trim(env.POLYMARKET_PRIVATE_KEY) = <<>>
    /\ Trim(env.PRIVATE_KEY) = <<>>

\* The checks that execute makes before it resolves the private key: the
\* trading and sandbox checks of place_order, the sandbox check and the
\* required parameters of resume, cancel_order and cancel_all.
PassesChecksBeforeKey(call) ==
  CASE call.action = "place_order" ->
         pluginConfig.tradeEnabled = "true" /\ ~call.ctx.sandboxed
    [] call.action = "resume" ->
         ~call.ctx.sandboxed /\ call.args.token # <<>> /\ call.args.approveType = "boolean"
    [] call.action = "cancel_order" ->
         ~call.ctx.sandboxed /\ TrimStr(call.args.orderId) # ""
    [] call.action = "cancel_all" ->
         ~call.ctx.sandboxed /\ call.args.confirm = TRUE
           /\ call.args.confirmType = "boolean"
    [] OTHER -> FALSE

\* C15 as stated: without a secret every place_order, resume, cancel_order
\* and cancel_all returns missing_private_key.
C15_EveryMutatingCallReportsMissingKey ==
  (NoSecret /\ last.action \in MutatingActions) =>
    last.result.errorType = "missing_private_key"

\* C15 amended: without a secret every place_order, resume, cancel_order and
\* cancel_all fails without emitting or decoding a token and without
\* building or calling the CLOB client; it returns missing_private_key
\* exactly when it passes the checks made before the key is resolved, and the
\* error of the first of those checks it fails otherwise.
C15_NoSecretNoMutation ==
  (NoSecret /\ last.action \in MutatingActions) =>
    /\ Inert(last)
    /\ (last.result.errorType = "missing_private_key") <=> PassesChecksBeforeKey(last)
    /\ ~PassesChecksBeforeKey(last) =>
         last.result.errorType \in
           {"trading_disabled", "sandboxed", "confirmation_required", "error"}

\* A resume of the token held, after the secret was removed.
C15_Witness ==
  /\ NoSecret /\ last.action = "resume"
  /\ held # NoHeld /\ last.args.token = held.resumeToken /\ last.args.approve
  /\ last.result.errorType = "missing_private_key"
  /\ Inert(last)

C15_WitnessCancel ==
  /\ NoSecret /\ last.action \in CancelActions
  /\ last.result.errorType = "missing_private_key"

\* C16 as stated: in a sandboxed context every place_order, cancel_order,
\* cancel_all and resume returns sandboxed.
C16_EveryMutatingCallReportsSandboxed ==
  (last.ctx.sandboxed /\ last.action \in MutatingActions) =>
    last.result.errorType = "sandboxed"

\* C16 amended: in a sandboxed context every place_order, cancel_order,
\* cancel_all and resume (whatever its decision) fails without emitting or
\* decoding a token and without building or calling the CLOB client; it
\* returns sandboxed, except a place_order while trading is disabled, which
\* returns trading_disabled.  Every read-only action gives in a sandboxed
\* context the result and the client calls it gives, for the same
\* parameters and the same answers of the services, in a context that is not
\* sandboxed.
C16_SandboxDeniesMutationOnly ==
  /\ (last.ctx.sandboxed /\ last.action \in MutatingActions) =>
       /\ Inert(last)
       /\ last.result.errorType =
            IF last.action = "place_order" /\ pluginConfig.tradeEnabled # "true"
              THEN "trading_disabled" ELSE "sandboxed"
  /\ (last.ctx.sandboxed /\ last.action \in ReadOnlyActions) =>
       \E venue \in ServiceScenarios :
         LET out == ToolOutcome(last.action, resolvePrivateKey(env),
                                [last.ctx EXCEPT !.sandboxed = FALSE], last.args, venue)
         IN out.result = last.result /\ out.calls = last.calls

\* A sandboxed resume with approve = true of the token held, under a
\* configuration and a key that would let it submit.
C16_Witness ==
  /\ last.ctx.sandboxed /\ last.action = "resume"
  /\ held # NoHeld /\ last.args.token = held.resumeToken /\ last.args.approve
  /\ pluginConfig.tradeEnabled = "true" /\ ~NoSecret
  /\ last.result.errorType = "sandboxed"
  /\ Inert(last)

\* A sandboxed read-only call that reaches the CLOB client.
C16_WitnessReadOnly ==
  /\ last.ctx.sandboxed /\ last.action = "open_orders"
  /\ last.result.ok /\ Len(last.calls) = 2

\* C17: for every pending order d and private key s of the codec scenario,
\* the token encodeResumeToken(d, s) has exactly one "." with a non-empty
\* payload before it and a non-empty signature after it, and
\* decodeResumeToken of it under s returns a pending order equal to d in
\* every member; a decode of the held token under the key it was encoded
\* under returns the order it was encoded from.
C17_RoundTrip ==
  /\ last.action = "encodeResumeToken" =>
       LET token == last.result.resumeToken
           dots  == {i \in 1..Len(token) : token[i] = Dot}
       IN /\ Cardinality(dots) = 1
          /\ \A i \in dots : i > 1 /\ i < Len(token)
          /\ decodeResumeToken(token, resolvePrivateKey(env)) =
               [ok |-> TRUE, error |-> "", pending |-> last.result.order]
  /\ (last.action = "decodeResumeToken" /\ ledger = <<resolvePrivateKey(env)>>) =>
       /\ last.result.ok
       /\ last.pending = held.order

\* A decode under the same secret read from another variable, of an order
\* whose optional members are an empty string and absent.
C17_Witness ==
  /\ last.action = "decodeResumeToken" /\ last.result.ok
  /\ ledger = <<resolvePrivateKey(env)>>
  /\ env.primary = <<49, 49>>
  /\ last.pending = held.order
  /\ held.order.sessionKey = "" /\ held.order.market.slug = Undefined
  /\ held.order.outcome = " YES "

\* C18: a token encoded under a private key is refused by decodeResumeToken
\* under every other private key with "Invalid token signature"; and once
\* the private key has been replaced by another one, a decode of the held
\* token throws that error and a resume of it, whatever its decision, returns
\* it as an error result, with nothing decoded and no call to the CLOB
\* client.
C18_SecretSensitivity ==
  /\ last.action = "encodeResumeToken" =>
       \A e \in CodecEnvironments :
         resolvePrivateKey(e) # resolvePrivateKey(env) =>
           decodeResumeToken(last.result.resumeToken, resolvePrivateKey(e)) =
             Thrown("Invalid token signature")
  /\ (/\ last.action \in {"decodeResumeToken", "resume"}
      /\ ledger # <<resolvePrivateKey(env)>>) =>
       /\ ~last.result.ok
       /\ last.result.message = "Invalid token signature"
       /\ last.pending = EmptyPending
       /\ last.calls = <<>>
       /\ last.action = "resume" => last.result.errorType = "error"

\* A resume with approve = true, after the key was rotated, of a token that
\* verified before.
C18_Witness ==
  /\ last.action = "resume" /\ last.args.approve
  /\ last.args.token = held.resumeToken
  /\ ledger = <<(<<48, 120, 49, 49>>)>> /\ resolvePrivateKey(env) = <<48, 120, 49, 50>>
  /\ last.result.errorType = "error"
  /\ last.result.message = "Invalid token signature"

\* The lists resolveOutcomeToken works on and the caller's label: a label
\* is given when it is not blank.
Instruments(call) == parseJsonStringArray(call.market.clobTokenIds)

Labels(call) == parseJsonStringArray(call.market.outcomes)

LabelGiven(call) ==
  call.args.outcome # "" /\ normalizeOutcomeLabel(call.args.outcome) # ""

ExplicitMatchApplies(call) ==
  /\ LabelGiven(call)
  /\ Len(Labels(call)) = Len(Instruments(call))
  /\ Len(Labels(call)) > 0

MatchingIndexes(call) ==
  {i \in 1..Len(Labels(call)) :
     normalizeOutcomeLabel(Labels(call)[i]) = normalizeOutcomeLabel(call.args.outcome)}

\* C19: when a label is given and the labels and the instruments are
\* non-empty lists of the same length, resolveOutcomeToken returns the
\* instrument and the label of the market at the first index whose label
\* equals the caller's after trimming and lower-casing, and throws "Unknown
\* outcome" when there is no such index, also for the labels yes and no and
\* never returning the first instrument by default.
C19_ExplicitLabelMatch ==
  (last.action = "resolveOutcomeToken" /\ ExplicitMatchApplies(last)) =>
    IF MatchingIndexes(last) # {}
      THEN \E i \in MatchingIndexes(last) :
             /\ \A j \in MatchingIndexes(last) : i <= j
             /\ last.resolved = Resolved(Instruments(last)[i], Labels(last)[i])
      ELSE last.resolved = Unresolved("Unknown outcome")

\* Two labels match: the first one is taken, with the market's spelling.
C19_Witness ==
  /\ last.action = "resolveOutcomeToken" /\ ExplicitMatchApplies(last)
  /\ Cardinality(MatchingIndexes(last)) = 2
  /\ last.args.outcome = " YES "
  /\ last.resolved = Resolved("T1", "Yes")

\* No label matches a yes: no fall through to the heuristic.
C19_WitnessUnknown ==
  /\ last.action = "resolveOutcomeToken" /\ ExplicitMatchApplies(last)
  /\ last.args.outcome = "yes" /\ Labels(last) = <<"No">>
  /\ last.resolved = Unresolved("Unknown outcome")

\* C20: when the market has instruments and the explicit match does not
\* apply (no label given, no labels, or labels and instruments of different
\* lengths), resolveOutcomeToken returns the first instrument as "Yes" for a
\* label that normalizes to yes, the second instrument as "No" for a label
\* that normalizes to no when there is a second one, the first instrument
\* with the first label of the market (none when there is no label list) when
\* no label is given, and throws the error asking for a tokenId in every
\* other case.
C20_Fallbacks ==
  (/\ last.action = "resolveOutcomeToken"
   /\ Len(Instruments(last)) > 0
   /\ ~ExplicitMatchApplies(last)) =>
    LET normalized == normalizeOutcomeLabel(last.args.outcome)
    IN CASE LabelGiven(last) /\ normalized = "yes" ->
              last.resolved = Resolved(Instruments(last)[1], "Yes")
         [] LabelGiven(last) /\ normalized = "no" /\ Len(Instruments(last)) >= 2 ->
              last.resolved = Resolved(Instruments(last)[2], "No")
         [] ~LabelGiven(last) ->
              last.resolved =
                Resolved(Instruments(last)[1],
                         IF Len(Labels(last)) >= 1 THEN Labels(last)[1] ELSE Undefined)
         [] OTHER ->
              last.resolved =
                Unresolved("Provide tokenId (or a resolvable outcome) to place an order")

\* A no for a market with a single instrument.
C20_Witness ==
  /\ last.action = "resolveOutcomeToken"
  /\ normalizeOutcomeLabel(last.args.outcome) = "no"
  /\ Instruments(last) = <<"T1">> /\ Labels(last) = <<>>
  /\ ~last.resolved.ok
  /\ last.resolved.error = "Provide tokenId (or a resolvable outcome) to place an order"

\* A no for a market with more labels than instruments: the second one.
C20_WitnessNo ==
  /\ last.action = "resolveOutcomeToken" /\ last.args.outcome = "No"
  /\ Len(Labels(last)) = 3 /\ Instruments(last) = <<"T1", "X9">>
  /\ last.resolved = Resolved("X9", "No")

\* No label: the first instrument with the first label.
C20_WitnessDefault ==
  /\ last.action = "resolveOutcomeToken" /\ last.args.outcome = ""
  /\ last.resolved = Resolved("T1", "No")

\* C21: resolveOutcomeToken throws "Market is missing clobTokenIds" whenever
\* market.clobTokenIds holds no instrument id (an empty array, or empty
\* strings only), whatever the labels of the market and of the caller are,
\* and an instrument it returns is a non-empty element of
\* market.clobTokenIds.
C21_NoInstrumentsNoResolution ==
  last.action = "resolveOutcomeToken" =>
    LET ids == last.market.clobTokenIds
    IN /\ (\A i \in 1..Len(ids) : ids[i] = "") =>
            last.resolved =
              Unresolved("Market is missing clobTokenIds; cannot trade via CLOB")
       /\ last.resolved.ok =>
            /\ last.resolved.tokenId # ""
            /\ \E i \in 1..Len(ids) : ids[i] = last.resolved.tokenId

\* No instrument at all, a label that matches one of the market's labels.
C21_Witness ==
  /\ last.action = "resolveOutcomeToken"
  /\ last.market.clobTokenIds = <<>>
  /\ last.market.outcomes = <<"Yes", "No">> /\ last.args.outcome = "yes"
  /\ last.resolved = Unresolved("Market is missing clobTokenIds; cannot trade via CLOB")

\* An empty string where the second instrument would be: a no gets the
\* instrument after it.
C21_WitnessSkipsEmpty ==
  /\ last.action = "resolveOutcomeToken"
  /\ last.market.clobTokenIds = <<"T1", "", "X9">> /\ last.args.outcome = "no"
  /\ last.market.outcomes = <<>>
  /\ last.resolved = Resolved("X9", "No")

\* The messages of the three throws of resolveOutcomeToken.
ResolverErrors ==
  {"Market is missing clobTokenIds; cannot trade via CLOB", "Unknown outcome",
   "Provide tokenId (or a resolvable outcome) to place an order"}

\* C22: a place_order whose tokenId parameter is not blank never ends in
\* an error of resolveOutcomeToken, and the order it stages carries that
\* tokenId (trimmed) and the caller's own outcome label, also when a market
\* and an outcome are given that resolveOutcomeToken would resolve to another
\* instrument or not at all.
C22_ExplicitInstrumentBypassesResolver ==
  (last.action = "place_order" /\ TrimStr(last.args.tokenId) # "") =>
    /\ ~(last.result.errorType = "error" /\ last.result.message \in ResolverErrors)
    /\ last.result.ok =>
         /\ last.result.order.tokenId = TrimStr(last.args.tokenId)
         /\ last.result.order.outcome = TrimStr(last.args.outcome)
         /\ held.order = last.result.order

\* An order staged for the instrument given, in a market whose labels do not
\* include the outcome given.
C22_Witness ==
  /\ last.action = "place_order" /\ last.result.ok
  /\ last.args.tokenId = " T2 " /\ last.args.marketSlug = "m1"
  /\ last.args.outcome = "maybe"
  /\ last.result.order.tokenId = "T2"
  /\ resolveOutcomeToken(resolveGammaMarket("", "m1"), "maybe") = Unresolved("Unknown outcome")

\* A request of the call, to the CLOB client or by fetchJson, that threw.
SomeCallThrew(call) == \E i \in 1..Len(call.calls) : call.calls[i].returned = "throws"

\* The order was handed to createAndPostOrder and the client did not accept
\* it: it threw, or it answered without an orderID.
SubmissionNotAccepted(call) ==
  \E i \in 1..Len(call.calls) :
    /\ call.calls[i].op = "createAndPostOrder"
    /\ call.calls[i].returned \in {"rejected", "throws"}

\* C23: every call of execute returns a result, which is either ok or an
\* error with a type; a call one of whose requests threw returns an error;
\* and a resume whose order the CLOB client did not accept (createAndPostOrder
\* threw or answered without an orderID) returns an error and not
\* {ok: true, status: "ok"}.
C23_NoFailureEscapesAsSuccess ==
  last # NoCall =>
    /\ last.result.ok \/ last.result.errorType # ""
    /\ SomeCallThrew(last) => (~last.result.ok /\ last.result.errorType = "error")
    /\ SubmissionNotAccepted(last) => ~last.result.ok

\* What a resume is given: the token and the decision, the context of the
\* tool that serves it, the clock, and what the venue answers.  (The
\* configuration and the private key are the same for all calls of the
\* instances scenario.)
ResumeInputs(entry) ==
  <<entry.call.args.token, entry.call.args.approve, entry.call.args.approveType,
    entry.call.ctx, entry.call.now, entry.venue>>

ThrownCheckFailures ==
  {"price must be between 0 and 1 (exclusive)", "size must be > 0",
   "Invalid token format", "Invalid token signature", "Invalid token payload"}
  \cup ResolverErrors

\* The error types execute names itself in place_order and resume.
SpecificErrorTypes ==
  {"trading_disabled", "sandboxed", "missing_private_key", "market_required",
   "market_not_allowed", "notional_limit", "expired", "session_mismatch", "unsupported",
   "invalid_tick"}

\* C25: a place_order or a resume that ends in an error because one of its
\* checks failed reports an error type of its own for that check, never the
\* type "error" of the catch block; in particular a price or size out of
\* range, an outcome that cannot be resolved and a token that does not decode
\* are not reported as type "error".
C25_FailedChecksHaveTheirOwnErrorType ==
  (last.action \in {"place_order", "resume"} /\ ~last.result.ok) =>
    /\ last.result.errorType \in SpecificErrorTypes \cup {"error"}
    /\ last.result.message \in ThrownCheckFailures => last.result.errorType # "error"

\* The requests of lines 1051, 1062 and 1067.
OrderOps == {"getTickSize", "getNegRisk", "createAndPostOrder"}

OrderOpsOf(call) == SelectSeq(call.calls, LAMBDA c : c.op \in OrderOps)

\* C26: getTickSize, getNegRisk and createAndPostOrder are called only by a
\* resume with approve = true that is not sandboxed, has a private key and a
\* token that verifies under it, is not past expiresAtMs, is not bound to
\* another session than the caller's, runs with trading enabled, carries a
\* place_order descriptor and a market the allowlist in force admits; they
\* are called in that order, after the client has been built, for the
\* instrument of the descriptor.  place_order makes no call to the CLOB
\* client, and a resume that ends expired, session_mismatch, cancelled,
\* trading_disabled or market_not_allowed makes none either.
C26_VenueTouchedOnlyAfterAllChecks ==
  /\ OrderOpsOf(last) # <<>> =>
       /\ ApprovedWithValidToken(last)
       /\ pluginConfig.tradeEnabled = "true"
       /\ last.pending.action = "place_order"
       /\ AllowlistInForce = {} \/ last.pending.market.slug \in AllowlistInForce
       /\ last.calls[1].op = "createOrDeriveApiKey" /\ last.calls[1].returned = "ok"
       /\ Len(OrderOpsOf(last)) = Len(last.calls) - 1
       /\ \A i \in 1..Len(OrderOpsOf(last)) :
            /\ OrderOpsOf(last)[i].op =
                 <<"getTickSize", "getNegRisk", "createAndPostOrder">>[i]
            /\ OrderOpsOf(last)[i].tokenID = last.pending.tokenId
  /\ last.action = "place_order" => last.calls = <<>>
  /\ (/\ last.action = "resume"
      /\ \/ last.result.errorType \in {"expired", "session_mismatch", "trading_disabled",
                                       "market_not_allowed"}
         \/ last.result.status = "cancelled") =>
       last.calls = <<>>

\* All three requests made, by a resume under an allowlist that admits the
\* market of the descriptor.
C26_Witness ==
  /\ Len(OrderOpsOf(last)) = 3
  /\ last.result.ok
  /\ AllowlistInForce = {"m1"} /\ last.pending.market.slug = "m1"
  /\ last.pending.sessionKey = "s1" /\ last.ctx.sessionKey = "s1"

\* The positions of the calls of createAndPostOrder among the calls made.
Submissions(call) == {i \in 1..Len(call.calls) : call.calls[i].op = "createAndPostOrder"}

\* C27: one call of execute submits at most once, and the submission is the
\* last request it makes: after createAndPostOrder has returned or thrown,
\* the call returns (the response, or the error) without another request to
\* the CLOB client; only resume submits at all.
C27_NoAutomaticRetry ==
  /\ Cardinality(Submissions(last)) <= 1
  /\ \A i \in Submissions(last) : i = Len(last.calls)
  /\ Submissions(last) # {} => last.action = "resume"
  /\ SubmissionNotAccepted(last) =>
       (last.result.status # "needs_approval" /\ last.result.resumeToken = <<>>)

\* A submission that threw: reported, not repeated.
C27_Witness ==
  /\ last.action = "resume"
  /\ Cardinality(Submissions(last)) = 1
  /\ last.calls[Len(last.calls)].returned = "throws"
  /\ last.result.errorType = "error" /\ last.result.message = "createAndPostOrder"

\* The signal fired while a request of the call was in flight.
SignalFiredInFlight(call) ==
  \/ (call.action = "resume" /\ ledger[1] \in 1..Len(call.calls))
  \/ (/\ call.action = "place_order" /\ ledger[1] = 1
      /\ (call.args.marketSlug # "" \/ call.args.marketId # ""))

\* C28: when the signal fires while a request of a place_order or of a resume
\* is in flight, that request is the last one the call makes (no request is
\* started after the signal, createAndPostOrder in particular) and the call
\* returns an error without a token; the token resumed stays the one held.
C28_CancellationStopsTheCall ==
  SignalFiredInFlight(last) =>
    /\ last.action = "resume" => Len(last.calls) = ledger[1]
    /\ ~last.result.ok
    /\ last.result.resumeToken = <<>>

\* A racing resume has made its request to createAndPostOrder.
HasSubmitted(racer) ==
  /\ racer.made = Len(racer.call.calls)
  /\ Submits(racer.call)

\* C29: every resume of the token held that is started with approve = true
\* no later than expiresAtMs decodes the order as it was staged and goes on
\* to createAndPostOrder with the instrument, price and size of that order,
\* however many other resumes of the token have started, are under way or
\* have submitted; the token and the order staged stay as they were.
C29_RacingResumesAllSubmit ==
  \A p \in 1..Len(ledger) :
    LET call == ledger[p].call
    IN /\ call.args.token = held.resumeToken
       /\ call.verified /\ call.pending = held.order
       /\ (call.args.approve /\ call.now <= held.order.expiresAtMs) =>
            /\ Submits(call)
            /\ call.calls[Len(call.calls)].tokenID = held.order.tokenId
            /\ call.calls[Len(call.calls)].price = held.order.price
            /\ call.calls[Len(call.calls)].size = held.order.size

\* Two resumes of one token, both past their checks before either has
\* submitted ... 
C29_WitnessBothPastChecks ==
  /\ Len(ledger) = 2
  /\ \A p \in 1..2 : Submits(ledger[p].call) /\ ledger[p].made = 3

\* ... and both submitted and accepted: two orders from one token.
C29_Witness ==
  /\ Len(ledger) = 2
  /\ \A p \in 1..2 : HasSubmitted(ledger[p]) /\ ledger[p].call.result.ok
  /\ ledger[1].call.args.token = ledger[2].call.args.token
  /\ ledger[1].call.now = ledger[2].call.now

\* The payload text of a token and what JSON.parse makes of it.
PayloadOf(token) == Utf8Decode(Base64UrlDecode(Split(token)[1]))

\* A pending order with the members resume relies on: its action, the
\* instrument, the side, the price, the size and the expiry.
WellFormedDescriptor(d) ==
  /\ d.action = "place_order"
  /\ d.tokenId # Undefined /\ d.side \in {"buy", "sell"}
  /\ d.price # NoNumber /\ d.size # NoNumber /\ d.expiresAtMs # NoNumber

\* C30: decodeResumeToken throws "Invalid token signature" for every token
\* whose signature does not verify, whether its payload parses or not; and
\* for a token whose signature verifies it returns the payload only when it
\* parses to a well-formed pending order, and throws "Invalid token payload"
\* otherwise.
C30_OnlyWellFormedDescriptorsDecoded ==
  last.action = "decodeResumeToken" =>
    /\ ~last.verified =>
         (~last.result.ok /\ last.result.message = "Invalid token signature")
    /\ last.result.ok => WellFormedDescriptor(last.pending)
    /\ (/\ last.verified
        /\ \/ JsonParse(PayloadOf(last.args.token)).kind # "object"
           \/ ~WellFormedDescriptor(JsonParse(PayloadOf(last.args.token)).value)) =>
         (~last.result.ok /\ last.result.message = "Invalid token payload")

\* A tick size that is a finite positive number.
FinitePositive(tickSize) == tickSize # NaN /\ tickSize > 0

\* value = k * tickSize for a whole number k.
WholeMultiple(value, tickSize) ==
  \E k \in -20..1000 : value = k * tickSize

\* The call getTickSize of a resume that got an answer, if there is one.
TickAnswers(call) ==
  {i \in 1..Len(call.calls) :
     call.calls[i].op = "getTickSize" /\ call.calls[i].returned # "throws"}

\* C31: isMultipleOfTick(value, tickSize) is true exactly when tickSize is
\* no finite positive number or value is a whole multiple of tickSize: 0.615
\* is not aligned to 0.01, 0.61 is, and everything is aligned to a tick size
\* of 0.  A resume whose venue reports a tick size ends in invalid_tick
\* exactly when that tick size parses to a finite positive number of which
\* the staged price is no whole multiple; with a tick size that does not
\* parse to a finite number, or is not positive, the order is submitted.
C31_TickAligned ==
  /\ \A i \in 1..Len(ledger) :
       ledger[i].aligned <=>
         (~FinitePositive(ledger[i].tickSize)
            \/ WholeMultiple(ledger[i].value, ledger[i].tickSize))
  /\ \A i \in 1..Len(ledger) :
       /\ (ledger[i].value = 615 /\ ledger[i].tickSize = 10) => ~ledger[i].aligned
       /\ (ledger[i].value = 610 /\ ledger[i].tickSize = 10) => ledger[i].aligned
       /\ ledger[i].tickSize = 0 => ledger[i].aligned
  /\ last.action = "resume" =>
       \A i \in TickAnswers(last) :
         \E tick \in {ParseTickSize(last.calls[i].returned)} :
           /\ last.result.errorType = "invalid_tick" <=>
                (FinitePositive(tick) /\ ~WholeMultiple(last.pending.price, tick))
           /\ ~FinitePositive(tick) => (Submits(last) /\ last.result.ok)

C31_Witness ==
  /\ ledger = <<[value |-> 615, tickSize |-> 10, aligned |-> FALSE]>>
  /\ last.action = "resume" /\ last.pending.price = 615
  /\ \E i \in TickAnswers(last) : last.calls[i].returned = "abc"
  /\ Submits(last) /\ last.result.ok

\* The call asks the CLOB client to cancel all orders (line 813).
CancelsAll(call) == \E i \in 1..Len(call.calls) : call.calls[i].op = "cancelAll"

\* The request carries confirm: true, the boolean.
ConfirmIsTrue(call) == call.args.confirmType = "boolean" /\ call.args.confirm = TRUE

\* C32 as stated: cancelAll is requested only by a cancel_all with confirm
\* exactly true, in a context that is not sandboxed, with a private key in
\* the environment; every cancel_all whose confirm is absent, false or no
\* boolean returns confirmation_required and makes no client call.
C32_UnconfirmedAlwaysAsksConfirmation ==
  /\ CancelsAll(last) =>
       /\ last.action = "cancel_all" /\ ConfirmIsTrue(last)
       /\ ~last.ctx.sandboxed /\ ~NoSecret
  /\ (last.action = "cancel_all" /\ ~ConfirmIsTrue(last)) =>
       /\ last.result.errorType = "confirmation_required"
       /\ last.calls = <<>>

\* C32 amended: cancelAll is requested only by a cancel_all with confirm
\* exactly true, in a context that is not sandboxed, with a private key in
\* the environment, and such a call requests it once the client is built;
\* a cancel_all whose confirm is absent, false or no boolean makes no client
\* call, and returns confirmation_required when the context is not
\* sandboxed and sandboxed when it is.
C32_CancelAllOnlyOnConfirmation ==
  /\ CancelsAll(last) =>
       /\ last.action = "cancel_all" /\ ConfirmIsTrue(last)
       /\ ~last.ctx.sandboxed /\ ~NoSecret
  /\ (/\ last.action = "cancel_all" /\ ConfirmIsTrue(last)
      /\ ~last.ctx.sandboxed /\ ~NoSecret
      /\ last.calls[1].returned # "throws") => CancelsAll(last)
  /\ (last.action = "cancel_all" /\ ~ConfirmIsTrue(last)) =>
       /\ last.calls = <<>>
       /\ last.result.errorType =
            (IF last.ctx.sandboxed THEN "sandboxed" ELSE "confirmation_required")

\* A cancel_all with confirm: "true", a string, refused with a private key
\* in the environment and no sandbox.
C32_Witness ==
  /\ last.action = "cancel_all"
  /\ last.args.confirm /\ last.args.confirmType = "string"
  /\ ~last.ctx.sandboxed /\ ~NoSecret
  /\ last.result.errorType = "confirmation_required"
  /\ last.calls = <<>>

C32_WitnessCancelled ==
  /\ last.action = "cancel_all" /\ CancelsAll(last) /\ last.result.ok

\* The requests createAndPostOrder of a call.
PostedOrders(call) ==
  {i \in 1..Len(call.calls) : call.calls[i].op = "createAndPostOrder"}

\* C33: every order passed to createAndPostOrder has the token id, the price
\* and the size of the descriptor that the place_order issuing the token
\* returned for approval, and its side (BUY for buy, SELL for sell); so its
\* price is above 0 and below 1 and its size above 0; and it is passed the
\* tick size string and the risk flag that getTickSize and getNegRisk
\* returned earlier in the same resume for that token id.
C33_ExecutedIsWhatWasApproved ==
  last.action = "resume" =>
    \A i \in PostedOrders(last) :
      /\ held # NoHeld
      /\ last.calls[i].tokenID = held.order.tokenId
      /\ last.calls[i].price = held.order.price
      /\ last.calls[i].size = held.order.size
      /\ held.order.side \in {"buy", "sell"}
      /\ last.calls[i].side = (IF held.order.side = "buy" THEN "BUY" ELSE "SELL")
      /\ 0 < last.calls[i].price /\ last.calls[i].price < PriceScale
      /\ last.calls[i].size > 0
      /\ \E j \in 1..(i - 1) :
           /\ last.calls[j].op = "getTickSize"
           /\ last.calls[j].tokenID = last.calls[i].tokenID
           /\ last.calls[i].tickSize = last.calls[j].returned
      /\ \E j \in 1..(i - 1) :
           /\ last.calls[j].op = "getNegRisk"
           /\ last.calls[j].tokenID = last.calls[i].tokenID
           /\ last.calls[i].negRisk = (last.calls[j].returned = "true")

\* A sell staged through a market at 0.615 and submitted on a negative-risk
\* market.
C33_Witness ==
  /\ last.action = "resume"
  /\ \E i \in PostedOrders(last) :
       /\ last.calls[i].side = "SELL" /\ last.calls[i].price = 615
       /\ last.calls[i].tokenID = "T1"
       /\ last.calls[i].negRisk

\* The markets of the Gamma API that list the instrument among their
\* clobTokenIds.
MarketsOf(tokenId) ==
  {m \in GammaMarkets :
     \E i \in 1..Len(parseJsonStringArray(m.clobTokenIds)) :
       parseJsonStringArray(m.clobTokenIds)[i] = tokenId}

\* The instrument is one of a market whose slug is on the allowlist in force.
OnAllowlist(tokenId) == \E m \in MarketsOf(tokenId) : m.slug \in AllowlistInForce

\* C34: under a non-empty allowlist every order that place_order stages, and
\* every order that a resume passes to createAndPostOrder, is for an
\* instrument of a market whose slug is on the allowlist, also when the
\* request gives a tokenId together with the slug or id of an allowed market.
C34_StagedInstrumentIsOnAllowlist ==
  AllowlistInForce # {} =>
    /\ (last.action = "place_order" /\ last.result.ok) =>
         OnAllowlist(last.result.order.tokenId)
    /\ last.action = "resume" =>
         \A i \in PostedOrders(last) : OnAllowlist(last.calls[i].tokenID)

\* The outcome label of the descriptor a place_order returned, which
\* buildApprovalPrompt prints as "Outcome: ..." when it is not empty
\* (line 414); Undefined when there is none.
OutcomeShown(call) ==
  IF call.result.order.outcome \in {Undefined, ""} THEN Undefined
  ELSE call.result.order.outcome

\* C35: in every descriptor that place_order returns for a request naming a
\* market, the outcome label, when there is one, is the label that the
\* market pairs with the descriptor's token id (outcomes[i] for the i with
\* clobTokenIds[i] = tokenId), also when the request gives both a tokenId
\* and an outcome.
C35_OutcomeShownIsOutcomeTraded ==
  (/\ last.action = "place_order" /\ last.result.ok
   /\ NamesMarket(last) /\ OutcomeShown(last) # Undefined) =>
    \E outcomes \in {parseJsonStringArray(FetchedMarket(last).outcomes)},
       tokenIds \in {parseJsonStringArray(FetchedMarket(last).clobTokenIds)} :
      \E i \in 1..Len(outcomes) :
        /\ i <= Len(tokenIds)
        /\ tokenIds[i] = last.result.order.tokenId
        /\ outcomes[i] = OutcomeShown(last)

\* Five minutes, in milliseconds.
FiveMinutes == 300000

\* C36: the descriptor that place_order returns with a token has action
\* place_order, createdAtMs equal to the time of the call, expiresAtMs equal
\* to createdAtMs plus five minutes and approxNotionalUsd equal to price times
\* size; the descriptor that a resume decodes from the token held is that
\* descriptor; and no resume whose clock is more than five minutes past the
\* createdAtMs of its token calls createAndPostOrder: with a private key and
\* outside a sandbox it ends in expired.
C36_TokenLivesFiveMinutes ==
  /\ (last.action = "place_order" /\ last.result.ok) =>
       /\ last.result.resumeToken # <<>>
       /\ last.result.order.action = "place_order"
       /\ last.result.order.createdAtMs = last.now
       /\ last.result.order.expiresAtMs = last.result.order.createdAtMs + FiveMinutes
       /\ last.result.order.approxNotionalUsd = last.args.price * last.args.size
       /\ held.order = last.result.order
  /\ (ReachesDecode(last) /\ last.verified) =>
       /\ last.pending = held.order
       /\ last.pending.action = "place_order"
       /\ last.pending.expiresAtMs = last.pending.createdAtMs + FiveMinutes
       /\ last.pending.approxNotionalUsd = last.pending.price * last.pending.size
       /\ last.now > last.pending.createdAtMs + FiveMinutes =>
            /\ last.result.errorType = "expired"
            /\ ~Submits(last)
  /\ (last.action = "resume" /\ Submits(last)) =>
       /\ last.verified
       /\ last.now <= last.pending.createdAtMs + FiveMinutes

\* A token staged at time 0 and resumed with approval one millisecond after
\* five minutes: expired.  The same order was worth 0.61 * 10 USD.
C36_Witness ==
  /\ ReachesDecode(last) /\ last.verified /\ last.args.approve
  /\ last.pending.createdAtMs = 0 /\ last.now = FiveMinutes + 1
  /\ last.pending.price = 610 /\ last.pending.size = 10
  /\ last.pending.approxNotionalUsd = 6100
  /\ last.result.errorType = "expired"

\* A token staged at time 0 and submitted at five minutes exactly.
C36_WitnessInTime ==
  /\ last.action = "resume" /\ Submits(last)
  /\ last.pending.createdAtMs = 0 /\ last.now = FiveMinutes

=============================================================================
